---------------------------- MODULE Spec2Model ----------------------------
(***************************************************************************)
(* A model of the uniqueness scoring engine of the congressional trade     *)
(* analyser (src/src/scoring/uniqueness-scorer.ts) and of the data it      *)
(* consumes.                                                               *)
(*                                                                         *)
(* Representation of values                                                *)
(*   - A nullable value (T | null) is a sequence of length at most one:    *)
(*     NULL is <<>> and a present value v is <<v>>.                        *)
(*   - A text (JavaScript string) is a sequence of one-character strings,  *)
(*     so that toLowerCase() and includes() are computed, not assumed.     *)
(*   - Market capitalisations are counted in units of $100M, so            *)
(*     that the default thresholds 300_000_000 / 2_000_000_000 /           *)
(*     10_000_000_000 are 3 / 20 / 100.                                    *)
(*   - Factor weights are counted in hundredths (0.20 is 20) and           *)
(*     conviction multipliers in tenths (2 is 20, 1.5 is 15).              *)
(*   - A non-integer number (an average trade size, a multiplier) is a     *)
(*     rational [num |-> n, den |-> d] with d > 0.                         *)
(***************************************************************************)
EXTENDS Integers, Sequences, FiniteSets, TLC

VARIABLES
    trade,          \* TradeInput handed to scoreTrade
    trader,         \* TraderInput
    traderHistory,  \* TraderHistory
    marketData,     \* MarketData | null
    tradingPattern, \* CongressionalTradingPattern | null
    sectorMap,      \* CommitteeSectorMap | null
    config,         \* ScoringConfig
    result,         \* completion of scoreTrade: none yet, a return, or a throw
    pc,             \* "ready" before the call, "done" after it
    allTrades,      \* the batch: a sequence of {trade: FMPTrade, chamber}
    now,            \* the time of the run (new Date()), in hours
    patterns,       \* CongressionalPatternAnalyzer.patterns, once constructed
    query,          \* the last getPattern call: its symbol and its answer
    histories,      \* the Map buildTraderHistories returned
    lookup,         \* arguments of a hasCommitteeOverlap call
    overlap,        \* what the taxonomy lookups on `lookup` answered
    amountInput,    \* argument of parseAmountRange: string | undefined
    amountRange,    \* what parseAmountRange returned
    committeeData,      \* analyzeTrades: CommitteeData | null
    marketDataProvider, \* analyzeTrades: MarketDataProvider | null
    marketDataMap,      \* analyzeTrades: the Map getMarketDataBatch resolved
    cursor,             \* analyzeTrades: position of the scoring loop
    scoredTrades,       \* analyzeTrades: the AnalyzedTrade list
    report,             \* completion of analyzeTrades, once settled
    ioLog,              \* the I/O operations analyzeTrades has performed
    fetchCalls,         \* the fetchTrades calls to come: arguments, API pages
    callNo,             \* the number of the fetchTrades call under way
    storedTrades,       \* trades.json: the TradeData stored, or none
    existingData,       \* fetchTrades: TradeData | null
    startDate,          \* fetchTrades: the date fetched back to, in hours
    allSenateTrades,    \* fetchTrades: accumulator of the senate pages
    allHouseTrades,     \* fetchTrades: accumulator of the house pages
    senateDone,         \* fetchTrades: loop flag
    houseDone,          \* fetchTrades: loop flag
    page,               \* fetchTrades: loop counter
    requestLog,         \* the page requests issued: <<chamber, page>>
    tradeData,          \* completion of the last fetchTrades call
    providerCalls,      \* the provider calls to come: method, symbols, time
    cacheConfig,        \* FMPMarketDataProvider.cacheConfig
    cacheFile,          \* market-data-cache.json: the cache stored, or none
    clock,              \* Date.now(), in milliseconds
    cache,              \* FMPMarketDataProvider.cache
    unavailableSymbols, \* FMPMarketDataProvider.unavailableSymbols
    providerCall,       \* the call under way and what the provider held then
    results,            \* getMarketDataBatch: the Map being filled
    uncached,           \* getMarketDataBatch: the symbols to fetch
    fetched,            \* getMarketDataBatch: loop counter
    retryCount,         \* fetchFromAPI: retryCount
    fetchLog,           \* the fetchFromAPI calls of the call under way
    providerAnswer      \* completion of the last provider call

scorerVars == <<trade, trader, traderHistory, marketData, tradingPattern,
                sectorMap, config, result>>
analysisVars == <<allTrades, now, patterns, query, histories>>
taxonomyVars == <<lookup, overlap>>
amountVars == <<amountInput, amountRange>>
runVars == <<committeeData, marketDataProvider, marketDataMap, cursor,
             scoredTrades, report, ioLog>>
fetchVars == <<fetchCalls, callNo, storedTrades, existingData, startDate,
               allSenateTrades, allHouseTrades, senateDone, houseDone, page,
               requestLog, tradeData>>
providerVars == <<providerCalls, cacheConfig, cacheFile, clock, cache,
                  unavailableSymbols, providerCall, results, uncached, fetched,
                  retryCount, fetchLog, providerAnswer>>
serviceVars == <<runVars, fetchVars, providerVars>>

vars == <<trade, trader, traderHistory, marketData, tradingPattern,
          sectorMap, config, result, pc,
          allTrades, now, patterns, query, histories,
          lookup, overlap, amountInput, amountRange, serviceVars>>

---------------------------------------------------------------------------
(* Nullable values and JavaScript truthiness                               *)

NULL == <<>>
Some(x) == <<x>>
IsNull(o) == o = <<>>
Val(o) == o[1]

\* !x for x : number | null  (null, 0 are falsy)
TruthyNumber(o) == ~IsNull(o) /\ Val(o) # 0
\* !x for x : string | null  (null, "" are falsy)
TruthyText(o) == ~IsNull(o) /\ Val(o) # <<>>
\* !x for x : rational | null
TruthyRational(o) == ~IsNull(o) /\ Val(o).num # 0

Range(s) == {s[i] : i \in DOMAIN s}

---------------------------------------------------------------------------
(* Texts: String.prototype.toLowerCase and String.prototype.includes       *)

UpperChars == <<"A", "B", "C", "D", "E", "F", "G", "H", "I", "J", "K", "L", "M",
                "N", "O", "P", "Q", "R", "S", "T", "U", "V", "W", "X", "Y", "Z">>
LowerChars == <<"a", "b", "c", "d", "e", "f", "g", "h", "i", "j", "k", "l", "m",
                "n", "o", "p", "q", "r", "s", "t", "u", "v", "w", "x", "y", "z">>

toLowerChar(c) ==
    IF \E i \in DOMAIN UpperChars : UpperChars[i] = c
    THEN LowerChars[CHOOSE i \in DOMAIN UpperChars : UpperChars[i] = c]
    ELSE c

toLowerCase(s) == [i \in DOMAIN s |-> toLowerChar(s[i])]

includes(s, sub) ==
    \E k \in 0..(Len(s) - Len(sub)) :
        \A j \in 1..Len(sub) : s[k + j] = sub[j]

toUpperChar(c) ==
    IF \E i \in DOMAIN LowerChars : LowerChars[i] = c
    THEN UpperChars[CHOOSE i \in DOMAIN LowerChars : LowerChars[i] = c]
    ELSE c

toUpperCase(s) == [i \in DOMAIN s |-> toUpperChar(s[i])]

\* String.prototype.trim, for texts whose only white space is the blank.
RECURSIVE trimStart(_)
trimStart(s) ==
    IF s # <<>> /\ Head(s) = " " THEN trimStart(Tail(s)) ELSE s

RECURSIVE trimEnd(_)
trimEnd(s) ==
    IF s # <<>> /\ s[Len(s)] = " " THEN trimEnd(SubSeq(s, 1, Len(s) - 1)) ELSE s

trim(s) == trimEnd(trimStart(s))

\* Every text that differs from s in the case of its letters only.
RECURSIVE Recasings(_)
Recasings(s) ==
    IF s = <<>> THEN {<<>>}
    ELSE {<<c>> \o r : c \in {toLowerChar(Head(s)), toUpperChar(Head(s))},
                       r \in Recasings(Tail(s))}

KW_option == <<"o", "p", "t", "i", "o", "n">>
KW_warrant == <<"w", "a", "r", "r", "a", "n", "t">>
KW_right == <<"r", "i", "g", "h", "t">>
KW_future == <<"f", "u", "t", "u", "r", "e">>
KW_derivative == <<"d", "e", "r", "i", "v", "a", "t", "i", "v", "e">>
KW_spouse == <<"s", "p", "o", "u", "s", "e">>
KW_child == <<"c", "h", "i", "l", "d">>
KW_dependent == <<"d", "e", "p", "e", "n", "d", "e", "n", "t">>
KW_joint == <<"j", "o", "i", "n", "t">>
KW_self == <<"s", "e", "l", "f">>

---------------------------------------------------------------------------
(* ScoringConfig                                                           *)

DEFAULT_SCORING_CONFIG ==
    [ marketCap  |-> [micro |-> 3, small |-> 20, mid |-> 100],
      conviction |-> [high |-> 20, veryHigh |-> 50],
      rarity     |-> [unique |-> 1, rare |-> 3, uncommon |-> 10],
      weights    |-> [marketCap |-> 20, conviction |-> 25, rarity |-> 25,
                      committeeRelevance |-> 15, derivative |-> 10,
                      ownership |-> 5] ]

\* Math.round of n/100: the nearest integer, a tie going up.
MathRoundHundredths(n) == (n + 50) \div 100

---------------------------------------------------------------------------
(* Committee-sector taxonomy (a subset of the static table)                *)

committeeMap ==
    [ SSAP |-> [sectors |-> <<>>, industries |-> <<>>],
      SSAS |-> [sectors |-> <<"Industrials">>,
                industries |-> <<"Aerospace & Defense",
                                 "Security & Protection Services">>],
      SSBK |-> [sectors |-> <<"Financial Services", "Real Estate">>,
                industries |-> <<"Banks - Regional", "Banks - Diversified",
                                 "Banks", "Financial - Credit Services",
                                 "Asset Management",
                                 "Financial - Capital Markets",
                                 "Insurance - Diversified",
                                 "Insurance - Property & Casualty",
                                 "Insurance - Life",
                                 "Financial - Data & Stock Exchanges",
                                 "Financial - Mortgages",
                                 "Real Estate - Development",
                                 "Real Estate - Services",
                                 "REIT - Diversified", "REIT - Residential">>],
      SSCM |-> [sectors |-> <<"Technology", "Communication Services",
                              "Industrials">>,
                industries |-> <<"Internet Content & Information",
                                 "Software - Infrastructure",
                                 "Software - Application", "Semiconductors",
                                 "Consumer Electronics",
                                 "Communication Equipment",
                                 "Telecommunications Services", "Broadcasting",
                                 "Entertainment",
                                 "Airlines, Airports & Air Services",
                                 "Railroads", "Trucking", "Marine Shipping">>],
      SSFI |-> [sectors |-> <<"Healthcare", "Financial Services">>,
                industries |-> <<"Medical - Healthcare Plans",
                                 "Medical - Pharmaceuticals",
                                 "Medical - Care Facilities",
                                 "Insurance - Diversified">>],
      SSFR |-> [sectors |-> <<>>,
                industries |-> <<"Aerospace & Defense">>] ]

getCommitteeSectors(committeeId) ==
    IF committeeId \in DOMAIN committeeMap
    THEN committeeMap[committeeId].sectors
    ELSE <<>>

getCommitteeIndustries(committeeId) ==
    IF committeeId \in DOMAIN committeeMap
    THEN committeeMap[committeeId].industries
    ELSE <<>>

\* hasCommitteeOverlap asking for a sector match and an industry match.
hasCommitteeOverlap_Both(committeeId, stockSector, stockIndustry) ==
    IF committeeId \notin DOMAIN committeeMap THEN FALSE
    ELSE /\ ~IsNull(stockSector) /\ Val(stockSector) # ""
         /\ Val(stockSector) \in Range(committeeMap[committeeId].sectors)
         /\ ~IsNull(stockIndustry) /\ Val(stockIndustry) # ""
         /\ Val(stockIndustry) \in Range(committeeMap[committeeId].industries)

\* stockSector, stockIndustry : string | null
hasCommitteeOverlap(committeeId, stockSector, stockIndustry) ==
    IF committeeId \notin DOMAIN committeeMap THEN FALSE
    ELSE IF ~IsNull(stockSector) /\ Val(stockSector) # ""
            /\ Val(stockSector) \in Range(committeeMap[committeeId].sectors)
         THEN TRUE
    ELSE IF ~IsNull(stockIndustry) /\ Val(stockIndustry) # ""
            /\ Val(stockIndustry) \in Range(committeeMap[committeeId].industries)
         THEN TRUE
    ELSE FALSE

checkCommitteeRelevance(traderCommitteeIds, stockSector, stockIndustry) ==
    LET overlapping ==
            SelectSeq(traderCommitteeIds,
                      LAMBDA c : hasCommitteeOverlap(c, stockSector, stockIndustry))
    IN  [hasRelevance |-> Len(overlapping) > 0,
         overlappingCommittees |-> overlapping]

---------------------------------------------------------------------------
(* Individual factor scoring functions                                     *)

\* marketData : MarketData | null ; marketData.marketCap : number | null
scoreMarketCap(md, cfg) ==
    IF IsNull(md) \/ ~TruthyNumber(Val(md).marketCap) THEN 0
    ELSE LET cap == Val(Val(md).marketCap)
         IN  IF cap < cfg.marketCap.micro THEN 100
             ELSE IF cap < cfg.marketCap.small THEN 75
             ELSE IF cap < cfg.marketCap.mid THEN 25
             ELSE 0

\* tradeSize / averageTradeSize >= tenths / 10, for a positive average:
\* ((low + high) / 2) / (num / den) >= tenths / 10
multiplierAtLeast(amount, avg, tenths) ==
    10 * (amount.low + amount.high) * avg.den >= tenths * 2 * avg.num

\* scoreConviction with the two upper bands fixed at 5x and 2x.
scoreConviction_FixedBands(t, history, cfg) ==
    IF IsNull(t.amount) \/ ~TruthyRational(history.averageTradeSize) THEN 0
    ELSE LET amount == Val(t.amount)
             avg == Val(history.averageTradeSize)
         IN  IF multiplierAtLeast(amount, avg, 50) THEN 100
             ELSE IF multiplierAtLeast(amount, avg, 20) THEN 75
             ELSE IF multiplierAtLeast(amount, avg, 15) THEN 50
             ELSE IF multiplierAtLeast(amount, avg, 10) THEN 25
             ELSE 0

\* trade.amount : {low, high} | null ; averageTradeSize : number | null
scoreConviction(t, history, cfg) ==
    IF IsNull(t.amount) \/ ~TruthyRational(history.averageTradeSize) THEN 0
    ELSE LET amount == Val(t.amount)
             avg == Val(history.averageTradeSize)
         IN  IF multiplierAtLeast(amount, avg, cfg.conviction.veryHigh) THEN 100
             ELSE IF multiplierAtLeast(amount, avg, cfg.conviction.high) THEN 75
             ELSE IF multiplierAtLeast(amount, avg, 15) THEN 50
             ELSE IF multiplierAtLeast(amount, avg, 10) THEN 25
             ELSE 0

Min(a, b) == IF a <= b THEN a ELSE b

\* scoreRarity without the final Math.min.
scoreRarity_Unclamped(pattern, cfg) ==
    IF IsNull(pattern) THEN 50
    ELSE (IF Val(pattern).totalTrades <= cfg.rarity.unique THEN 100
          ELSE IF Val(pattern).totalTrades <= cfg.rarity.rare THEN 75
          ELSE IF Val(pattern).totalTrades <= cfg.rarity.uncommon THEN 50
          ELSE 0)
         + (IF Val(pattern).uniqueTraders = 1 THEN 25
            ELSE IF Val(pattern).uniqueTraders <= 3 THEN 10
            ELSE 0)

\* scoreRarity with the two bonus tiers tested independently (no else).
scoreRarity_StackedBonus(pattern, cfg) ==
    IF IsNull(pattern) THEN 50
    ELSE Min(100,
             (IF Val(pattern).totalTrades <= cfg.rarity.unique THEN 100
              ELSE IF Val(pattern).totalTrades <= cfg.rarity.rare THEN 75
              ELSE IF Val(pattern).totalTrades <= cfg.rarity.uncommon THEN 50
              ELSE 0)
             + (IF Val(pattern).uniqueTraders = 1 THEN 25 ELSE 0)
             + (IF Val(pattern).uniqueTraders <= 3 THEN 10 ELSE 0))

\* pattern : CongressionalTradingPattern | null
scoreRarity(pattern, cfg) ==
    IF IsNull(pattern) THEN 50
    ELSE LET totalTrades == Val(pattern).totalTrades
             uniqueTraders == Val(pattern).uniqueTraders
             tradeScore ==
                 IF totalTrades <= cfg.rarity.unique THEN 100
                 ELSE IF totalTrades <= cfg.rarity.rare THEN 75
                 ELSE IF totalTrades <= cfg.rarity.uncommon THEN 50
                 ELSE 0
             traderBonus ==
                 IF uniqueTraders = 1 THEN 25
                 ELSE IF uniqueTraders <= 3 THEN 10
                 ELSE 0
         IN  Min(100, tradeScore + traderBonus)

(* A call completes normally with a value, or abruptly with an exception.  *)
Return(v) == [threw |-> FALSE, value |-> v]
Throw(e) == [threw |-> TRUE, error |-> e]

\* sectorMap.getStockSectors(symbol, description): the CommitteeSectorMap
\* interface and CommitteeSectorMapImpl declare no such method, so on such an
\* object the call is a TypeError; an object that also carries the method
\* answers with its own list of tags.
callGetStockSectors(map) ==
    IF Val(map).hasGetStockSectors
    THEN Return(Val(map).stockSectors)
    ELSE Throw("TypeError: sectorMap.getStockSectors is not a function")

\* The union of getCommitteeSectors over the trader's committees.
traderSectorsOf(committees) ==
    UNION {Range(getCommitteeSectors(committees[i])) : i \in DOMAIN committees}

overlappingSectors(stockSectors, committees) ==
    SelectSeq(stockSectors, LAMBDA s : s \in traderSectorsOf(committees))

scoreCommitteeRelevance(t, tr, map) ==
    IF IsNull(map) \/ ~TruthyText(t.symbol) \/ Len(tr.committees) = 0
    THEN Return(0)
    ELSE LET call == callGetStockSectors(map)
         IN  IF call.threw THEN call
             ELSE IF Len(call.value) = 0 THEN Return(0)
             ELSE LET overlapping == overlappingSectors(call.value, tr.committees)
                  IN  IF Len(overlapping) = 0 THEN Return(0)
                      ELSE IF Len(overlapping) >= 2 THEN Return(100)
                      ELSE Return(75)

\* scoreDerivative comparing the text as written, without toLowerCase.
scoreDerivative_CaseSensitive(t) ==
    IF ~TruthyText(t.assetType) THEN 0
    ELSE LET assetType == Val(t.assetType)
         IN  IF includes(assetType, KW_option)
                \/ includes(assetType, KW_warrant)
                \/ includes(assetType, KW_right)
             THEN 100
             ELSE IF includes(assetType, KW_future)
                     \/ includes(assetType, KW_derivative)
             THEN 75
             ELSE 0

scoreDerivative(t) ==
    IF ~TruthyText(t.assetType) THEN 0
    ELSE LET assetType == toLowerCase(Val(t.assetType))
         IN  IF includes(assetType, KW_option)
                \/ includes(assetType, KW_warrant)
                \/ includes(assetType, KW_right)
             THEN 100
             ELSE IF includes(assetType, KW_future)
                     \/ includes(assetType, KW_derivative)
             THEN 75
             ELSE 0

scoreOwnership(t) ==
    IF ~TruthyText(t.owner) THEN 0
    ELSE LET owner == toLowerCase(Val(t.owner))
         IN  IF includes(owner, KW_spouse) THEN 75
             ELSE IF includes(owner, KW_child) \/ includes(owner, KW_dependent)
             THEN 100
             ELSE IF includes(owner, KW_joint) THEN 25
             ELSE 0

\* calculateOverallScore with the default weights instead of the config's.
calculateOverallScore_DefaultWeights(factors, cfg) ==
    MathRoundHundredths(
        factors.marketCapScore * DEFAULT_SCORING_CONFIG.weights.marketCap
        + factors.convictionScore * DEFAULT_SCORING_CONFIG.weights.conviction
        + factors.rarityScore * DEFAULT_SCORING_CONFIG.weights.rarity
        + factors.committeeRelevanceScore
              * DEFAULT_SCORING_CONFIG.weights.committeeRelevance
        + factors.derivativeScore * DEFAULT_SCORING_CONFIG.weights.derivative
        + factors.ownershipScore * DEFAULT_SCORING_CONFIG.weights.ownership)

\* Math.round of the weighted sum; the weights are in hundredths.
calculateOverallScore(factors, cfg) ==
    MathRoundHundredths(
        factors.marketCapScore * cfg.weights.marketCap
        + factors.convictionScore * cfg.weights.conviction
        + factors.rarityScore * cfg.weights.rarity
        + factors.committeeRelevanceScore * cfg.weights.committeeRelevance
        + factors.derivativeScore * cfg.weights.derivative
        + factors.ownershipScore * cfg.weights.ownership)

---------------------------------------------------------------------------
(* Amount parsing                                                          *)

DigitChars == <<"0", "1", "2", "3", "4", "5", "6", "7", "8", "9">>
IsDigit(c) == \E i \in DOMAIN DigitChars : DigitChars[i] = c
DigitValue(c) == (CHOOSE i \in DOMAIN DigitChars : DigitChars[i] = c) - 1

\* parseInt(digits, 10) for a text of decimal digits
RECURSIVE parseInt(_)
parseInt(digits) ==
    IF digits = <<>> THEN 0
    ELSE 10 * parseInt(SubSeq(digits, 1, Len(digits) - 1))
         + DigitValue(digits[Len(digits)])

\* The length of the longest prefix of s made of digits.
leadingDigits(s) ==
    CHOOSE k \in 0..Len(s) :
        /\ \A i \in 1..k : IsDigit(s[i])
        /\ (k = Len(s) \/ ~IsDigit(s[k + 1]))

\* s.match(/(\d+)/g): the maximal runs of digits from left to right (the
\* empty sequence stands for the null of no match).
RECURSIVE matchDigits(_)
matchDigits(s) ==
    IF s = <<>> THEN <<>>
    ELSE IF IsDigit(Head(s))
         THEN <<SubSeq(s, 1, leadingDigits(s))>>
              \o matchDigits(SubSeq(s, leadingDigits(s) + 1, Len(s)))
         ELSE matchDigits(Tail(s))

\* parseAmountRange reading the digits of the text as written, "$" and ","
\* left in place.
parseAmountRange_Uncleaned(amountText) ==
    IF ~TruthyText(amountText) THEN NULL
    ELSE LET numbers == matchDigits(Val(amountText))
         IN  IF Len(numbers) = 0 THEN NULL
             ELSE IF Len(numbers) = 1
                  THEN Some([low |-> parseInt(numbers[1]),
                             high |-> parseInt(numbers[1])])
                  ELSE Some([low |-> parseInt(numbers[1]),
                             high |-> parseInt(numbers[2])])

\* amountText : string | undefined
parseAmountRange(amountText) ==
    IF ~TruthyText(amountText) THEN NULL
    ELSE LET cleaned == SelectSeq(Val(amountText),
                                  LAMBDA c : c \notin {"$", ","})
             numbers == matchDigits(cleaned)
         IN  IF Len(numbers) = 0 THEN NULL
             ELSE IF Len(numbers) = 1
                  THEN Some([low |-> parseInt(numbers[1]),
                             high |-> parseInt(numbers[1])])
                  ELSE Some([low |-> parseInt(numbers[1]),
                             high |-> parseInt(numbers[2])])

---------------------------------------------------------------------------
(* FMP trades and the congressional pattern analyzer                       *)

\* An FMPTrade: every field is optional (undefined is NULL).
FMPTrade(firstName, lastName, symbol, transactionDate, amountText) ==
    [firstName |-> firstName, lastName |-> lastName, office |-> NULL,
     link |-> NULL, dateRecieved |-> NULL, transactionDate |-> transactionDate,
     owner |-> NULL, assetDescription |-> NULL, assetType |-> NULL,
     type |-> NULL, amount |-> amountText, comment |-> NULL,
     symbol |-> symbol]

\* A transactionDate text: an ISO date naming a day, a text that is no date,
\* or the empty text. Times are counted in hours.
IsoDate(day) == [kind |-> "iso", day |-> day]
MalformedDate == [kind |-> "malformed", day |-> 0]
EmptyDate == [kind |-> "empty", day |-> 0]

HoursPerDay == 24
NinetyDays == 90 * HoursPerDay

\* !x for a transactionDate (undefined and "" are falsy)
TruthyDate(o) == ~IsNull(o) /\ Val(o).kind # "empty"

\* new Date(text).getTime(): midnight of the day named, or NaN (NULL).
NewDate(text) ==
    IF text.kind = "iso" THEN Some(text.day * HoursPerDay) ELSE NULL

\* `${x}` for x : string | undefined
KW_undefined == <<"u", "n", "d", "e", "f", "i", "n", "e", "d">>
TemplateText(o) == IF IsNull(o) THEN KW_undefined ELSE Val(o)

\* `${trade.firstName}-${trade.lastName}`.toLowerCase()
patternTraderId(t) ==
    toLowerCase(TemplateText(t.firstName) \o <<"-">> \o TemplateText(t.lastName))

\* tradeDate >= ninetyDaysAgo, false for an invalid date
isRecent(t, nowTime) ==
    /\ TruthyDate(t.transactionDate)
    /\ ~IsNull(NewDate(Val(t.transactionDate)))
    /\ Val(NewDate(Val(t.transactionDate))) >= nowTime - NinetyDays

\* The trades grouped under one key of symbolTrades.
symbolTradeList(trades, symbol) ==
    SelectSeq(trades, LAMBDA t : TruthyText(t.symbol)
                                 /\ toUpperCase(Val(t.symbol)) = symbol)

\* The Map this.patterns after buildPatterns: a function on its keys.
buildPatterns(trades, nowTime) ==
    [symbol \in {toUpperCase(Val(t.symbol)) :
                    t \in {x \in Range(trades) : TruthyText(x.symbol)}} |->
        [symbol |-> symbol,
         totalTrades |-> Len(symbolTradeList(trades, symbol)),
         uniqueTraders |->
             Cardinality({patternTraderId(t) :
                             t \in Range(symbolTradeList(trades, symbol))}),
         recentTrades |->
             Len(SelectSeq(symbolTradeList(trades, symbol),
                           LAMBDA t : isRecent(t, nowTime)))]]

\* Map.prototype.get: the value, or undefined (NULL)
MapGet(map, key) == IF key \in DOMAIN map THEN Some(map[key]) ELSE NULL

\* getPattern looking the symbol up as written, without toUpperCase.
getPattern_CaseSensitive(map, symbol) ==
    IF ~IsNull(MapGet(map, symbol)) THEN Val(MapGet(map, symbol))
    ELSE [symbol |-> symbol, totalTrades |-> 0, uniqueTraders |-> 0,
          recentTrades |-> 0]

getPattern(map, symbol) ==
    LET upper == toUpperCase(symbol)
    IN  IF ~IsNull(MapGet(map, upper)) THEN Val(MapGet(map, upper))
        ELSE [symbol |-> upper, totalTrades |-> 0, uniqueTraders |-> 0,
              recentTrades |-> 0]

---------------------------------------------------------------------------
(* Trader histories                                                        *)

\* x || null for x : string | undefined
OrNull(o) == IF TruthyText(o) THEN o ELSE NULL
\* x || "" for x : string | undefined
OrEmpty(o) == IF TruthyText(o) THEN Val(o) ELSE <<>>

toTradeInput(t) ==
    [symbol |-> OrNull(t.symbol),
     assetDescription |-> OrNull(t.assetDescription),
     assetType |-> OrNull(t.assetType),
     type |-> OrNull(t.type),
     amount |-> parseAmountRange(t.amount),
     transactionDate |-> IF TruthyDate(t.transactionDate)
                         THEN t.transactionDate ELSE NULL,
     owner |-> OrNull(t.owner)]

ChamberText(chamber) ==
    IF chamber = "senate" THEN <<"s", "e", "n", "a", "t", "e">>
    ELSE <<"h", "o", "u", "s", "e">>

\* `${chamber}-${first}-${last}`
getTraderId(t, chamber) ==
    LET first == trim(toLowerCase(OrEmpty(t.firstName)))
        last == trim(toLowerCase(OrEmpty(t.lastName)))
    IN  ChamberText(chamber) \o <<"-">> \o first \o <<"-">> \o last

RECURSIVE sumMidpointsTwice(_)
\* amounts.reduce((a, b) => a + b, 0), the midpoints counted in halves
sumMidpointsTwice(tradeInputs) ==
    IF tradeInputs = <<>> THEN 0
    ELSE Val(Head(tradeInputs).amount).low + Val(Head(tradeInputs).amount).high
         + sumMidpointsTwice(Tail(tradeInputs))

\* historyOf averaging over every trade of the trader, a trade without a
\* parsed amount counting as zero.
historyOf_MissingAsZero(tradeInputs) ==
    LET withAmount == SelectSeq(tradeInputs, LAMBDA t : ~IsNull(t.amount))
    IN  [visibleTrades |-> tradeInputs,
         averageTradeSize |->
             IF Len(tradeInputs) > 0
             THEN Some([num |-> sumMidpointsTwice(withAmount),
                        den |-> 2 * Len(tradeInputs)])
             ELSE NULL,
         totalTradeCount |-> Len(tradeInputs)]

\* The TraderHistory of the trade inputs grouped under one trader id.
historyOf(tradeInputs) ==
    LET withAmount == SelectSeq(tradeInputs, LAMBDA t : ~IsNull(t.amount))
    IN  [visibleTrades |-> tradeInputs,
         averageTradeSize |->
             IF Len(withAmount) > 0
             THEN Some([num |-> sumMidpointsTwice(withAmount),
                        den |-> 2 * Len(withAmount)])
             ELSE NULL,
         totalTradeCount |-> Len(tradeInputs)]

\* The trade inputs pushed under a trader id, in the order of the batch.
traderTrades(batch, traderId) ==
    LET own == SelectSeq(batch, LAMBDA b : getTraderId(b.trade, b.chamber) = traderId)
    IN  [i \in DOMAIN own |-> toTradeInput(own[i].trade)]

\* The Map buildTraderHistories returns: a function on its keys.
buildTraderHistories(batch) ==
    [traderId \in {getTraderId(b.trade, b.chamber) : b \in Range(batch)} |->
        historyOf(traderTrades(batch, traderId))]

---------------------------------------------------------------------------
(* Explanation builder                                                     *)

marketCapCategory(cap, cfg) ==
    IF cap < cfg.marketCap.micro THEN "micro"
    ELSE IF cap < cfg.marketCap.small THEN "small"
    ELSE IF cap < cfg.marketCap.mid THEN "mid"
    ELSE "large"

rarityCategory(totalTrades, cfg) ==
    IF totalTrades <= cfg.rarity.unique THEN "unique"
    ELSE IF totalTrades <= cfg.rarity.rare THEN "rare"
    ELSE IF totalTrades <= cfg.rarity.uncommon THEN "uncommon"
    ELSE "common"

explainMarketCap(md, cfg) ==
    IF ~IsNull(md) /\ TruthyNumber(Val(md).marketCap)
    THEN Some([value |-> Val(Val(md).marketCap),
               category |-> marketCapCategory(Val(Val(md).marketCap), cfg)])
    ELSE NULL

explainConviction(t, history) ==
    IF ~IsNull(t.amount) /\ TruthyRational(history.averageTradeSize)
    THEN LET amount == Val(t.amount)
             avg == Val(history.averageTradeSize)
         IN  Some([tradeSize |-> [num |-> amount.low + amount.high, den |-> 2],
                   averageSize |-> avg,
                   multiplier |-> [num |-> (amount.low + amount.high) * avg.den,
                                   den |-> 2 * avg.num]])
    ELSE NULL

explainRarity(pattern, cfg) ==
    IF ~IsNull(pattern)
    THEN Some([totalCongressTrades |-> Val(pattern).totalTrades,
               uniqueTraders |-> Val(pattern).uniqueTraders,
               category |-> rarityCategory(Val(pattern).totalTrades, cfg)])
    ELSE NULL

explainCommitteeRelevance(t, tr, map) ==
    IF ~IsNull(map) /\ TruthyText(t.symbol) /\ Len(tr.committees) > 0
    THEN LET call == callGetStockSectors(map)
         IN  IF call.threw THEN call
             ELSE LET overlapping == overlappingSectors(call.value, tr.committees)
                  IN  IF Len(overlapping) > 0
                      THEN Return(Some([traderCommittees |-> tr.committees,
                                        stockSectors |-> call.value,
                                        overlappingSectors |-> overlapping]))
                      ELSE Return(NULL)
    ELSE Return(NULL)

explainDerivative(t) ==
    IF TruthyText(t.assetType)
    THEN Some([assetType |-> Val(t.assetType),
               isDerivative |->
                   includes(toLowerCase(Val(t.assetType)), KW_option)
                   \/ includes(toLowerCase(Val(t.assetType)), KW_warrant)])
    ELSE NULL

explainOwnership(t) ==
    IF TruthyText(t.owner)
    THEN Some([owner |-> Val(t.owner),
               isIndirect |->
                   toLowerCase(Val(t.owner)) # KW_self
                   /\ ~includes(toLowerCase(Val(t.owner)), KW_self)])
    ELSE NULL

buildExplanation(t, tr, history, md, pattern, map, cfg) ==
    LET committee == explainCommitteeRelevance(t, tr, map)
    IN  IF committee.threw THEN committee
        ELSE Return([marketCap |-> explainMarketCap(md, cfg),
                     conviction |-> explainConviction(t, history),
                     rarity |-> explainRarity(pattern, cfg),
                     committeeRelevance |-> committee.value,
                     derivative |-> explainDerivative(t),
                     ownership |-> explainOwnership(t)])

---------------------------------------------------------------------------
(* scoreTrade                                                              *)

\* The flags with a strict comparison (> 50) instead of >= 50.
flagsOf_Strict(factors) ==
    [isSmallCap |-> factors.marketCapScore > 50,
     isHighConviction |-> factors.convictionScore > 50,
     isRareStock |-> factors.rarityScore > 50,
     hasCommitteeRelevance |-> factors.committeeRelevanceScore > 50,
     isDerivative |-> factors.derivativeScore > 50,
     isIndirectOwnership |-> factors.ownershipScore > 50]

flagsOf(factors) ==
    [isSmallCap |-> factors.marketCapScore >= 50,
     isHighConviction |-> factors.convictionScore >= 50,
     isRareStock |-> factors.rarityScore >= 50,
     hasCommitteeRelevance |-> factors.committeeRelevanceScore >= 50,
     isDerivative |-> factors.derivativeScore >= 50,
     isIndirectOwnership |-> factors.ownershipScore >= 50]

scoreTrade(t, tr, history, md, pattern, map, cfg) ==
    LET committee == scoreCommitteeRelevance(t, tr, map)
    IN  IF committee.threw THEN committee
        ELSE
        LET factors ==
                [marketCapScore |-> scoreMarketCap(md, cfg),
                 convictionScore |-> scoreConviction(t, history, cfg),
                 rarityScore |-> scoreRarity(pattern, cfg),
                 committeeRelevanceScore |-> committee.value,
                 derivativeScore |-> scoreDerivative(t),
                 ownershipScore |-> scoreOwnership(t)]
            explanation == buildExplanation(t, tr, history, md, pattern, map, cfg)
        IN  IF explanation.threw THEN explanation
            ELSE Return([overallScore |-> calculateOverallScore(factors, cfg),
                         factors |-> factors,
                         explanation |-> explanation.value,
                         flags |-> flagsOf(factors)])

---------------------------------------------------------------------------
(* analyzeTrades: the orchestration of one analysis run                    *)

\* The FMPTrade of each element of the batch, in order:
\* [...senateTrades, ...houseTrades].
tradesOf(batch) == [i \in DOMAIN batch |-> batch[i].trade]

\* The committees and identity of the trader of a trade. The member lookup
\* (findMemberByName, getMemberCommittees) answers every trade that carries
\* both names with the committees held by committeeData.
buildTraderInput(t, chamber, data) ==
    [id |-> getTraderId(t, chamber),
     firstName |-> OrEmpty(t.firstName),
     lastName |-> OrEmpty(t.lastName),
     chamber |-> chamber,
     committees |->
         IF ~IsNull(data) /\ TruthyText(t.firstName) /\ TruthyText(t.lastName)
         THEN Val(data) ELSE <<>>]

\* dateOrder placing the trades without a date above every date.
dateOrder_UndatedFirst(t) ==
    IF ~TruthyDate(t.transactionDate) THEN 1000000
    ELSE Val(t.transactionDate).day + 1

\* The place of `trade.transactionDate || ""` in the order of localeCompare:
\* the empty text comes before every date, and ISO dates of one width are
\* ordered as their days.
dateOrder(t) ==
    IF ~TruthyDate(t.transactionDate) THEN 0
    ELSE Val(t.transactionDate).day + 1

\* Array.prototype.sort with the comparator (a, b) => key(b) - key(a), keys[i]
\* being the key of list[i]: the sort is stable, so an element comes after
\* those of a greater key and after the earlier elements of its own key.
sortDescending(list, keys) ==
    LET place(i) ==
            1 + Cardinality({j \in DOMAIN list :
                                \/ keys[j] > keys[i]
                                \/ keys[j] = keys[i] /\ j < i})
    IN  [p \in DOMAIN list |-> list[CHOOSE i \in DOMAIN list : place(i) = p]]

TopCount == 20

\* list.slice(0, TopCount)
sliceTop(list) ==
    IF Len(list) <= TopCount THEN list ELSE SubSeq(list, 1, TopCount)

\* The summary of the report, from the list already sorted by date.
summaryOf(sorted) ==
    LET rare == SelectSeq(sorted, LAMBDA a : a.score.flags.isRareStock)
        relevant == SelectSeq(sorted,
                              LAMBDA a : a.score.flags.hasCommitteeRelevance)
    IN  [topByScore |-> sliceTop(sorted),
         byRarity |->
             sliceTop(sortDescending(
                 rare,
                 [i \in DOMAIN rare |-> rare[i].score.factors.rarityScore])),
         byCommitteeRelevance |->
             sliceTop(sortDescending(
                 relevant,
                 [i \in DOMAIN relevant |->
                     relevant[i].score.factors.committeeRelevanceScore]))]

---------------------------------------------------------------------------
(* The trade service: fetchTrades and its helpers                          *)

\* The characters of `trade.transactionDate || ""`: nothing for an absent or
\* empty date, the day for an ISO date, a text that names no date otherwise.
dateText(o) ==
    IF ~TruthyDate(o) THEN <<>>
    ELSE IF Val(o).kind = "iso" THEN <<ToString(Val(o).day)>>
    ELSE <<"n", "/", "a">>

\* [firstName || "", ..., owner || ""].join("|")
getTradeKey(t) ==
    OrEmpty(t.firstName) \o <<"|">> \o OrEmpty(t.lastName) \o <<"|">>
    \o dateText(t.transactionDate) \o <<"|">> \o OrEmpty(t.symbol) \o <<"|">>
    \o OrEmpty(t.type) \o <<"|">> \o OrEmpty(t.amount) \o <<"|">>
    \o OrEmpty(t.owner)

\* new Date(trade.transactionDate) < targetDate for some dated trade; the
\* comparison is false for an invalid date.
hasTradesOlderThan(trades, targetDate) ==
    \E i \in DOMAIN trades :
        /\ TruthyDate(trades[i].transactionDate)
        /\ ~IsNull(NewDate(Val(trades[i].transactionDate)))
        /\ Val(NewDate(Val(trades[i].transactionDate))) < targetDate

\* The latest valid transaction date of the trades, or null.
getMostRecentTradeDate(trades) ==
    LET times == {Val(NewDate(Val(trades[i].transactionDate))) :
                     i \in {j \in DOMAIN trades :
                               /\ TruthyDate(trades[j].transactionDate)
                               /\ ~IsNull(NewDate(Val(trades[j].transactionDate)))}}
    IN  IF times = {} THEN NULL
        ELSE Some(CHOOSE m \in times : \A x \in times : x <= m)

\* mergeTrades appending every new trade, a stored key or not.
mergeTrades_AppendAll(existing, newTrades) == existing \o newTrades

mergeTrades(existing, newTrades) ==
    LET existingKeys == {getTradeKey(existing[i]) : i \in DOMAIN existing}
    IN  existing \o SelectSeq(newTrades,
                              LAMBDA t : getTradeKey(t) \notin existingKeys)

\* Lines 89-124: the date to fetch back to. The reduce starts from
\* new Date(0), so a latest date at time 0 counts as none.
startDateOf(refresh, existing, targetDate) ==
    IF refresh \/ IsNull(existing) THEN targetDate
    ELSE LET senateMostRecent == getMostRecentTradeDate(Val(existing).senateTrades)
             houseMostRecent == getMostRecentTradeDate(Val(existing).houseTrades)
             found == {Val(d) : d \in {senateMostRecent, houseMostRecent} \ {NULL}}
             mostRecentDate ==
                 IF \E x \in found : x > 0
                 THEN CHOOSE m \in found : \A x \in found : x <= m
                 ELSE 0
         IN  IF mostRecentDate = 0 THEN targetDate
             ELSE mostRecentDate - HoursPerDay

\* Lines 193-201: the fetched trades without a date, or dated at or after the
\* start date; an invalid date compares false and is dropped.
notOlderThan(trades, start) ==
    SelectSeq(trades,
              LAMBDA t : \/ ~TruthyDate(t.transactionDate)
                         \/ /\ ~IsNull(NewDate(Val(t.transactionDate)))
                            /\ Val(NewDate(Val(t.transactionDate))) >= start)

maxPages == 50

\* What the API answers to a request of page p of a chamber: the pages of the
\* chamber's script, then its full pages, then empty pages.
apiPage(script, p) ==
    IF p < Len(script.head) THEN script.head[p + 1]
    ELSE IF p < Len(script.head) + script.fullPages THEN Return(script.full)
    ELSE Return(<<>>)

---------------------------------------------------------------------------
(* The FMP market-data provider                                            *)

REQUEST_DELAY_MS == 500
MAX_RETRIES == 3

\* isCacheValid accepting any entry, whatever its age.
isCacheValid_NoExpiry(entries, symbol, nowMs, cfg) == symbol \in DOMAIN entries

\* isCacheValid: an entry exists and now - fetchedAt < ttlMs.
isCacheValid(entries, symbol, nowMs, cfg) ==
    /\ symbol \in DOMAIN entries
    /\ nowMs - entries[symbol].fetchedAt < cfg.ttlMs

\* map[key] = value, Map.prototype.set
MapSet(map, key, value) ==
    [k \in DOMAIN map \cup {key} |-> IF k = key THEN value ELSE map[k]]

\* backoffMs waiting one second before every retry.
backoffMs_Constant(retries) == 1000

\* Math.pow(2, retryCount + 1) * 1000
backoffMs(retries) == (2 ^ (retries + 1)) * 1000

\* The MarketData made of the profile the API answers for a symbol.
profileOf(symbol) ==
    [marketCap |-> Some(Len(symbol)), sector |-> Some("Industrials"),
     industry |-> NULL, averageVolume |-> NULL]

\* What one HTTP request comes to: a profile, a rate limit, a payment
\* required, another non-OK status, an empty body, or a network exception.
Responses == {"200", "429", "402", "500", "empty", "exception"}

\* An entry of the fetch log: a fetchFromAPI call for a symbol, the status of
\* each of its requests, the waits between them, and what it returned once
\* it has (<<data>>, data being null or a MarketData).
startedFetch(symbol) ==
    [symbol |-> symbol, statuses |-> <<>>, sleeps |-> <<>>, returned |-> <<>>,
     at |-> 0]

---------------------------------------------------------------------------
(* Inputs of scoreTrade                                                    *)

MaxCap == 101           \* market caps range over -1 .. MaxCap (units of $100M)
MaxAmount == 4          \* amount bounds low, high range over 0 .. MaxAmount
MaxAvgNum == 6          \* numerator of an average trade size
MaxAvgDen == 2          \* denominator of an average trade size
MaxTotalTrades == 11    \* totalTrades of a pattern
MaxUniqueTraders == 4   \* uniqueTraders of a pattern
MaxCommittees == 2      \* number of committees of a trader

T_Stock == <<"S", "t", "o", "c", "k">>
T_StockOption == <<"S", "t", "o", "c", "k", " ", "O", "p", "t", "i", "o", "n">>
T_CommonStock == <<"C", "o", "m", "m", "o", "n", " ", "S", "t", "o", "c", "k">>
T_Futures == <<"F", "u", "t", "u", "r", "e", "s">>
O_Self == <<"S", "e", "l", "f">>
O_Spouse == <<"S", "p", "o", "u", "s", "e">>
O_Child == <<"C", "h", "i", "l", "d">>
O_Joint == <<"J", "o", "i", "n", "t">>
S_JPM == <<"J", "P", "M">>
S_LMT == <<"L", "M", "T">>
D_Company == <<"C", "o", "r", "p">>

\* Further example texts, by the field they are values of.
AssetTypeExamples ==
    [ Rights |->
          <<"R", "i", "g", "h", "t", "s">>,
      Warrant |->
          <<"W", "a", "r", "r", "a", "n", "t">>,
      Derivative |->
          <<"D", "e", "r", "i", "v", "a", "t", "i", "v", "e">>,
      FutureOption |->
          <<"F", "u", "t", "u", "r", "e", " ", "O", "p", "t", "i", "o", "n">>,
      Bond |->
          <<"B", "o", "n", "d">>,
      Optio |->
          <<"O", "p", "t", "i", "o">>,
      OptBlankIon |->
          <<"O", "p", "t", " ", "i", "o", "n">> ]

OwnerExamples ==
    [ Dependent |->
          <<"D", "e", "p", "e", "n", "d", "e", "n", "t">>,
      SpouseChild |->
          <<"S", "p", "o", "u", "s", "e", "/", "C", "h", "i", "l", "d">>,
      DependentOfSpouse |->
          <<"D", "e", "p", "e", "n", "d", "e", "n", "t", " ", "o", "f", " ",
            "S", "p", "o", "u", "s", "e">>,
      JointSpouse |->
          <<"J", "o", "i", "n", "t", " ", "S", "p", "o", "u", "s", "e">>,
      JointChild |->
          <<"J", "o", "i", "n", "t", " ", "C", "h", "i", "l", "d">>,
      Trust |->
          <<"T", "r", "u", "s", "t">> ]

NameExamples ==
    [ MaryAnn |->
          <<"M", "a", "r", "y", "-", "A", "n", "n">>,
      Mary |->
          <<"M", "a", "r", "y">>,
      MARY |->
          <<"M", "A", "R", "Y">>,
      maryPadded |->
          <<" ", "m", "a", "r", "y", " ">>,
      Lee |->
          <<"L", "e", "e">>,
      AnnLee |->
          <<"A", "n", "n", "-", "L", "e", "e">>,
      annlee |->
          <<"a", "n", "n", "-", "l", "e", "e">>,
      ANNLEE |->
          <<"A", "N", "N", "-", "L", "E", "E">> ]

SymbolExamples ==
    [ GE |->
          <<"G", "E">>,
      ge |->
          <<"g", "e">>,
      Ge |->
          <<"G", "e">>,
      F |->
          <<"F">>,
      ZZ |->
          <<"Z", "Z">> ]

AmountExamples ==
    [ Range15001to50000 |->
          <<"$", "1", "5", ",", "0", "0", "1", " ", "-", " ", "$", "5", "0",
            ",", "0", "0", "0">>,
      Range1001to15000 |->
          <<"$", "1", ",", "0", "0", "1", " ", "-", " ", "$", "1", "5", ",",
            "0", "0", "0">>,
      Over50M |->
          <<"O", "v", "e", "r", " ", "$", "5", "0", ",", "0", "0", "0", ",",
            "0", "0", "0">>,
      ThreeNumbers |->
          <<"$", "1", " ", "$", "2", " ", "$", "3">>,
      Undisclosed |->
          <<"N", "/", "A">>,
      Zero |->
          <<"$", "0">> ]

Rational(n, d) == [num |-> n, den |-> d]

TradeInput(symbol, description, assetType, amount, owner) ==
    [symbol |-> symbol, assetDescription |-> description,
     assetType |-> assetType, type |-> Some("purchase"), amount |-> amount,
     transactionDate |-> Some("2025-01-15"), owner |-> owner]

TraderInput(committees) ==
    [id |-> "senate-jane-doe", firstName |-> "Jane", lastName |-> "Doe",
     chamber |-> "senate", committees |-> committees]

TraderHistory(averageTradeSize) ==
    [visibleTrades |-> <<>>, averageTradeSize |-> averageTradeSize,
     totalTradeCount |-> 1]

MarketData(marketCap, sector, industry) ==
    [marketCap |-> marketCap, sector |-> sector, industry |-> industry,
     averageVolume |-> NULL]

Pattern(totalTrades, uniqueTraders) ==
    [symbol |-> "JPM", totalTrades |-> totalTrades,
     uniqueTraders |-> uniqueTraders, recentTrades |-> 0]

\* A CommitteeSectorMapImpl: the three methods of the interface, no more.
SectorMapImpl == [hasGetStockSectors |-> FALSE]
\* An object that carries getStockSectors too, answering with `tags`.
SectorMapWithStockSectors(tags) ==
    [hasGetStockSectors |-> TRUE, stockSectors |-> tags]

WithMarketCap(cfg, micro, small, mid) ==
    [cfg EXCEPT !.marketCap = [micro |-> micro, small |-> small, mid |-> mid]]
WithConviction(cfg, high, veryHigh) ==
    [cfg EXCEPT !.conviction = [high |-> high, veryHigh |-> veryHigh]]
WithRarity(cfg, unique, rare, uncommon) ==
    [cfg EXCEPT !.rarity = [unique |-> unique, rare |-> rare,
                            uncommon |-> uncommon]]
WithWeights(cfg, mc, cv, ra, cr, de, ow) ==
    [cfg EXCEPT !.weights = [marketCap |-> mc, conviction |-> cv, rarity |-> ra,
                             committeeRelevance |-> cr, derivative |-> de,
                             ownership |-> ow]]

SeqsUpTo(S, n) == UNION {[1..k -> S] : k \in 0..n}

CommitteeIds == {"SSAP", "SSAS", "SSBK", "SSCM", "SSFI", "SSFR", "XXXX"}

---------------------------------------------------------------------------
(* The state machine: Init draws the inputs, ScoreTrade applies the scorer *)

\* The parts of the state a specification does not exercise stay as they are
\* before any call.
AnalysisIdle ==
    /\ allTrades = <<>>
    /\ now = 0
    /\ patterns = NULL
    /\ query = NULL
    /\ histories = NULL

TaxonomyIdle == lookup = NULL /\ overlap = NULL

AmountIdle == amountInput = NULL /\ amountRange = NULL

RunIdle ==
    /\ committeeData = NULL
    /\ marketDataProvider = NULL
    /\ marketDataMap = NULL
    /\ cursor = 1
    /\ scoredTrades = <<>>
    /\ report = NULL
    /\ ioLog = <<>>

FetchIdle ==
    /\ fetchCalls = <<>>
    /\ callNo = 0
    /\ storedTrades = NULL
    /\ existingData = NULL
    /\ startDate = 0
    /\ allSenateTrades = <<>>
    /\ allHouseTrades = <<>>
    /\ senateDone = FALSE
    /\ houseDone = FALSE
    /\ page = 0
    /\ requestLog = <<>>
    /\ tradeData = NULL

ProviderIdle ==
    /\ providerCalls = <<>>
    /\ cacheConfig = [ttlMs |-> 0, maxEntries |-> 0]
    /\ cacheFile = NULL
    /\ clock = 0
    /\ cache = <<>>
    /\ unavailableSymbols = {}
    /\ providerCall = NULL
    /\ results = <<>>
    /\ uncached = <<>>
    /\ fetched = 0
    /\ retryCount = 0
    /\ fetchLog = <<>>
    /\ providerAnswer = NULL

ServicesIdle == RunIdle /\ FetchIdle /\ ProviderIdle

InitScorer(Trades, Traders, Histories, MarketDatas, Patterns, Maps, Configs) ==
    /\ trade \in Trades
    /\ trader \in Traders
    /\ traderHistory \in Histories
    /\ marketData \in MarketDatas
    /\ tradingPattern \in Patterns
    /\ sectorMap \in Maps
    /\ config \in Configs
    /\ result = NULL
    /\ pc = "ready"
    /\ AnalysisIdle /\ TaxonomyIdle /\ AmountIdle /\ ServicesIdle

ScoreTrade ==
    /\ pc = "ready"
    /\ result' = Some(scoreTrade(trade, trader, traderHistory, marketData,
                                 tradingPattern, sectorMap, config))
    /\ pc' = "done"
    /\ UNCHANGED <<trade, trader, traderHistory, marketData, tradingPattern,
                   sectorMap, config>>
    /\ UNCHANGED <<analysisVars, taxonomyVars, amountVars, serviceVars>>

Next == ScoreTrade

BaseTrade == TradeInput(Some(S_JPM), Some(D_Company), Some(T_Stock), NULL, Some(O_Self))

\* Every factor varies coarsely, under several weightings.
InitScore ==
    InitScorer(
        {TradeInput(sym, Some(D_Company), ty, am, ow) :
            sym \in {NULL, Some(S_JPM)},
            ty \in {NULL, Some(T_StockOption), Some(T_Futures)},
            am \in {NULL, Some([low |-> 15001, high |-> 50000])},
            ow \in {NULL, Some(O_Spouse), Some(O_Child), Some(O_Joint)}},
        {TraderInput(c) : c \in {<<>>, <<"SSBK", "SSFI">>}},
        {TraderHistory(a) : a \in {NULL, Some(Rational(10000, 1)),
                                   Some(Rational(20000, 1)),
                                   Some(Rational(65001, 2))}},
        {NULL, Some(MarketData(Some(1), NULL, NULL)),
         Some(MarketData(Some(50), NULL, NULL))},
        {NULL, Some(Pattern(1, 1)), Some(Pattern(2, 1)), Some(Pattern(5, 2)),
         Some(Pattern(50, 30))},
        {NULL, Some(SectorMapImpl),
         Some(SectorMapWithStockSectors(<<"Financial Services">>))},
        {DEFAULT_SCORING_CONFIG,
         WithRarity(WithConviction(WithMarketCap(DEFAULT_SCORING_CONFIG, 1, 2, 4),
                                   12, 14), 2, 4, 6),
         WithWeights(DEFAULT_SCORING_CONFIG, 0, 0, 0, 0, 0, 100),
         WithWeights(DEFAULT_SCORING_CONFIG, 100, 100, 100, 100, 100, 100),
         WithWeights(DEFAULT_SCORING_CONFIG, -20, 25, 25, 15, 10, 5)})

SpecScore == InitScore /\ [][Next]_vars

\* The market cap and its thresholds vary.
InitMarketCap ==
    InitScorer(
        {BaseTrade}, {TraderInput(<<>>)}, {TraderHistory(NULL)},
        {NULL} \cup {Some(MarketData(c, NULL, NULL)) :
                        c \in {NULL} \cup {Some(n) : n \in (0 - 1)..MaxCap}},
        {NULL}, {NULL},
        {DEFAULT_SCORING_CONFIG,
         WithMarketCap(DEFAULT_SCORING_CONFIG, 1, 2, 4)})

SpecMarketCap == InitMarketCap /\ [][Next]_vars

\* The trade amount, the trader's average and the conviction bands vary.
InitConviction ==
    InitScorer(
        {TradeInput(Some(S_JPM), Some(D_Company), Some(T_Stock), am, Some(O_Self)) :
            am \in {NULL, Some([low |-> 15001, high |-> 50000])}
                   \cup {Some([low |-> l, high |-> h]) :
                            l \in 0..MaxAmount, h \in 0..MaxAmount}},
        {TraderInput(<<>>)},
        {TraderHistory(a) :
            a \in {NULL, Some(Rational(10000, 1))}
                  \cup {Some(Rational(n, d)) : n \in 0..MaxAvgNum, d \in 1..MaxAvgDen}},
        {NULL}, {NULL}, {NULL},
        {DEFAULT_SCORING_CONFIG,
         WithConviction(DEFAULT_SCORING_CONFIG, 12, 14),
         WithConviction(DEFAULT_SCORING_CONFIG, 30, 100)})

SpecConviction == InitConviction /\ [][Next]_vars

\* The trading pattern and the rarity bands vary.
InitRarity ==
    InitScorer(
        {BaseTrade}, {TraderInput(<<>>)}, {TraderHistory(NULL)}, {NULL},
        {NULL, Some(Pattern(50, 30))}
            \cup {Some(Pattern(t, u)) :
                     t \in 0..MaxTotalTrades, u \in 0..MaxUniqueTraders},
        {NULL},
        {DEFAULT_SCORING_CONFIG,
         WithRarity(DEFAULT_SCORING_CONFIG, 2, 4, 6),
         WithRarity(DEFAULT_SCORING_CONFIG, 0, 0, 0)})

SpecRarity == InitRarity /\ [][Next]_vars

\* The tags of a stock as a sector map resolves them from its market data:
\* its sector, then its industry, those that are present.
stockTagsOf(md) ==
    (IF IsNull(Val(md).sector) THEN <<>> ELSE <<Val(Val(md).sector)>>)
    \o (IF IsNull(Val(md).industry) THEN <<>> ELSE <<Val(Val(md).industry)>>)

StockClassifications ==
    {<<NULL, NULL>>,
     <<Some("Industrials"), Some("Aerospace & Defense")>>,
     <<Some("Financial Services"), Some("Banks - Diversified")>>,
     <<Some("Financial Services"), NULL>>,
     <<NULL, Some("Aerospace & Defense")>>,
     <<Some("Technology"), Some("Semiconductors")>>,
     <<Some("Energy"), Some("Solar")>>}

\* The sector map, the trader's committees and the stock's tags vary.
InitCommittee ==
    /\ trade \in {TradeInput(sym, Some(D_Company), Some(T_Stock), NULL, Some(O_Self)) :
                     sym \in {NULL, Some(<<>>), Some(S_LMT)}}
    /\ trader \in {TraderInput(c) : c \in SeqsUpTo(CommitteeIds, MaxCommittees)}
    /\ traderHistory = TraderHistory(NULL)
    /\ marketData \in {Some(MarketData(NULL, st[1], st[2])) :
                          st \in StockClassifications}
    /\ tradingPattern = NULL
    /\ sectorMap \in {NULL, Some(SectorMapImpl),
                      Some(SectorMapWithStockSectors(stockTagsOf(marketData)))}
    /\ config = DEFAULT_SCORING_CONFIG
    /\ result = NULL
    /\ pc = "ready"
    /\ AnalysisIdle /\ TaxonomyIdle /\ AmountIdle /\ ServicesIdle

SpecCommittee == InitCommittee /\ [][Next]_vars

\* The asset-type text varies, in every casing of its letters.
InitDerivative ==
    InitScorer(
        LET E == AssetTypeExamples
            AssetTypeTexts ==
                {<<>>, T_StockOption, T_CommonStock, E.FutureOption,
                 E.OptBlankIon}
                \cup Recasings(KW_option) \cup Recasings(E.Warrant)
                \cup Recasings(E.Rights) \cup Recasings(T_Futures)
                \cup Recasings(E.Derivative) \cup Recasings(T_Stock)
                \cup Recasings(E.Bond) \cup Recasings(E.Optio)
        IN  {TradeInput(Some(S_JPM), Some(D_Company), ty, NULL, Some(O_Self)) :
                ty \in {NULL} \cup {Some(x) : x \in AssetTypeTexts}},
        {TraderInput(<<>>)}, {TraderHistory(NULL)}, {NULL}, {NULL}, {NULL},
        {DEFAULT_SCORING_CONFIG})

SpecDerivative == InitDerivative /\ [][Next]_vars

\* The owner text varies, in every casing of its letters.
InitOwnership ==
    InitScorer(
        LET E == OwnerExamples
            OwnerTexts ==
                {<<>>, E.SpouseChild, E.DependentOfSpouse, E.JointSpouse,
                 E.JointChild}
                \cup Recasings(O_Spouse) \cup Recasings(O_Child)
                \cup Recasings(E.Dependent) \cup Recasings(O_Joint)
                \cup Recasings(O_Self) \cup Recasings(E.Trust)
        IN  {TradeInput(Some(S_JPM), Some(D_Company), Some(T_Stock), NULL, ow) :
                ow \in {NULL} \cup {Some(x) : x \in OwnerTexts}},
        {TraderInput(<<>>)}, {TraderHistory(NULL)}, {NULL}, {NULL}, {NULL},
        {DEFAULT_SCORING_CONFIG})

SpecOwnership == InitOwnership /\ [][Next]_vars

---------------------------------------------------------------------------
(* The pattern analyzer: the constructor builds the index, getPattern       *)
(* queries it                                                              *)

MaxBatch == 2           \* number of trades of a batch

ScorerIdle ==
    /\ trade = BaseTrade
    /\ trader = TraderInput(<<>>)
    /\ traderHistory = TraderHistory(NULL)
    /\ marketData = NULL
    /\ tradingPattern = NULL
    /\ sectorMap = NULL
    /\ config = DEFAULT_SCORING_CONFIG
    /\ result = NULL

\* new CongressionalPatternAnalyzer(allTrades)
NewPatternAnalyzer ==
    /\ pc = "ready"
    /\ patterns' = Some(buildPatterns(tradesOf(allTrades), now))
    /\ pc' = "built"
    /\ UNCHANGED <<allTrades, now, query, histories>>
    /\ UNCHANGED <<scorerVars, taxonomyVars, amountVars, serviceVars>>

\* patternAnalyzer.getPattern(symbol)
GetPattern ==
    /\ pc = "built"
    /\ \E symbol \in {SymbolExamples.GE, SymbolExamples.ge, SymbolExamples.Ge,
                      SymbolExamples.F, SymbolExamples.ZZ, <<>>} :
           query' = Some([symbol |-> symbol,
                          pattern |-> getPattern(Val(patterns), symbol)])
    /\ pc' = "queried"
    /\ UNCHANGED <<allTrades, now, patterns, histories>>
    /\ UNCHANGED <<scorerVars, taxonomyVars, amountVars, serviceVars>>

NextPatterns == NewPatternAnalyzer \/ GetPattern

InitAnalyzer(Trades, Nows) ==
    /\ allTrades \in SeqsUpTo({[trade |-> t, chamber |-> "senate"] : t \in Trades},
                              MaxBatch)
    /\ now \in Nows
    /\ patterns = NULL
    /\ query = NULL
    /\ histories = NULL
    /\ pc = "ready"
    /\ ScorerIdle /\ TaxonomyIdle /\ AmountIdle /\ ServicesIdle

\* The symbols and the traders' names of the batch vary.
InitPatterns ==
    InitAnalyzer(
        {FMPTrade(n[1], n[2], sym, Some(IsoDate(100)), NULL) :
            n \in {<<Some(NameExamples.MaryAnn), Some(NameExamples.Lee)>>,
                   <<Some(NameExamples.Mary), Some(NameExamples.AnnLee)>>,
                   <<Some(NameExamples.MARY), Some(NameExamples.annlee)>>,
                   <<NULL, Some(NameExamples.Lee)>>},
            sym \in {NULL, Some(<<>>), Some(SymbolExamples.GE),
                     Some(SymbolExamples.ge), Some(SymbolExamples.F)}},
        {100 * HoursPerDay})

SpecPatterns == InitPatterns /\ [][NextPatterns]_vars

\* The transaction dates of the batch and the time of day of the run vary.
InitRecent ==
    InitAnalyzer(
        {FMPTrade(Some(NameExamples.Mary), Some(NameExamples.Lee), Some(sym),
                  d, NULL) :
            sym \in {SymbolExamples.GE, SymbolExamples.F},
            d \in {NULL, Some(EmptyDate), Some(MalformedDate)}
                  \cup {Some(IsoDate(day)) : day \in {9, 10, 11, 100, 150, 465}}},
        {100 * HoursPerDay, 100 * HoursPerDay + 12})

SpecRecent == InitRecent /\ [][NextPatterns]_vars

---------------------------------------------------------------------------
(* The taxonomy lookups                                                    *)

GetCommitteeSectors ==
    /\ pc = "ready"
    /\ overlap' = Some([call |-> "getCommitteeSectors",
                         value |-> getCommitteeSectors(lookup.committeeId)])
    /\ pc' = "done"
    /\ UNCHANGED <<lookup, scorerVars, analysisVars, amountVars, serviceVars>>

GetCommitteeIndustries ==
    /\ pc = "ready"
    /\ overlap' = Some([call |-> "getCommitteeIndustries",
                         value |-> getCommitteeIndustries(lookup.committeeId)])
    /\ pc' = "done"
    /\ UNCHANGED <<lookup, scorerVars, analysisVars, amountVars, serviceVars>>

HasCommitteeOverlap ==
    /\ pc = "ready"
    /\ overlap' = Some([call |-> "hasCommitteeOverlap",
                         value |-> hasCommitteeOverlap(lookup.committeeId,
                                                       lookup.stockSector,
                                                       lookup.stockIndustry)])
    /\ pc' = "done"
    /\ UNCHANGED <<lookup, scorerVars, analysisVars, amountVars, serviceVars>>

NextTaxonomy == GetCommitteeSectors \/ GetCommitteeIndustries \/ HasCommitteeOverlap

\* The committee id and the stock's sector and industry vary.
InitTaxonomy ==
    /\ lookup \in
           [committeeId : CommitteeIds,
            stockSector :
                {NULL, Some(""), Some("Industrials"),
                 Some("Financial Services"), Some("Technology"),
                 Some("Energy"), Some("Aerospace & Defense")},
            stockIndustry :
                {NULL, Some(""), Some("Aerospace & Defense"),
                 Some("Banks - Diversified"), Some("Semiconductors"),
                 Some("Solar"), Some("Industrials")}]
    /\ overlap = NULL
    /\ pc = "ready"
    /\ ScorerIdle /\ AnalysisIdle /\ AmountIdle /\ ServicesIdle

SpecTaxonomy == InitTaxonomy /\ [][NextTaxonomy]_vars

---------------------------------------------------------------------------
(* parseAmountRange on its own                                             *)

MaxAmountLen == 3       \* length of an enumerated amount text

ParseAmountRange ==
    /\ pc = "ready"
    /\ amountRange' = parseAmountRange(amountInput)
    /\ pc' = "done"
    /\ UNCHANGED <<amountInput, scorerVars, analysisVars, taxonomyVars,
                   serviceVars>>

\* The amount text varies: undefined, the feed's usual forms, and every text
\* of up to MaxAmountLen characters.
InitAmount ==
    /\ amountInput \in
           {NULL, Some(AmountExamples.Range15001to50000),
            Some(AmountExamples.Range1001to15000),
            Some(AmountExamples.Over50M), Some(AmountExamples.ThreeNumbers),
            Some(AmountExamples.Undisclosed)}
           \cup {Some(x) : x \in SeqsUpTo({"$", ",", "0", "1", "5", " ", "-"},
                                          MaxAmountLen)}
    /\ amountRange = NULL
    /\ pc = "ready"
    /\ ScorerIdle /\ AnalysisIdle /\ TaxonomyIdle /\ ServicesIdle

SpecAmount == InitAmount /\ [][ParseAmountRange]_vars

---------------------------------------------------------------------------
(* buildTraderHistories on a batch                                         *)

BuildTraderHistories ==
    /\ pc = "ready"
    /\ histories' = Some(buildTraderHistories(allTrades))
    /\ pc' = "done"
    /\ UNCHANGED <<allTrades, now, patterns, query>>
    /\ UNCHANGED <<scorerVars, taxonomyVars, amountVars, serviceVars>>

\* The chambers, the traders' names and the amount texts of the batch vary.
InitHistories ==
    /\ allTrades \in
           SeqsUpTo({[trade |-> FMPTrade(n[1], n[2], Some(SymbolExamples.GE),
                                         Some(IsoDate(100)), am),
                      chamber |-> ch] :
                        n \in {<<Some(NameExamples.Mary),
                                 Some(NameExamples.AnnLee)>>,
                               <<Some(NameExamples.maryPadded),
                                 Some(NameExamples.ANNLEE)>>,
                               <<Some(NameExamples.MaryAnn),
                                 Some(NameExamples.Lee)>>,
                               <<NULL, Some(NameExamples.Lee)>>},
                        am \in {NULL, Some(AmountExamples.Undisclosed),
                                Some(AmountExamples.Zero),
                                Some(AmountExamples.Range15001to50000)},
                        ch \in {"senate", "house"}},
                    MaxBatch)
    /\ now = 100 * HoursPerDay
    /\ patterns = NULL
    /\ query = NULL
    /\ histories = NULL
    /\ pc = "ready"
    /\ ScorerIdle /\ TaxonomyIdle /\ AmountIdle /\ ServicesIdle

SpecHistories == InitHistories /\ [][BuildTraderHistories]_vars

---------------------------------------------------------------------------
(* analyzeTrades, step by step: aggregate, resolve market data, score each *)
(* trade, then sort, summarise and save                                    *)

\* Lines 120-156: the pattern analyzer, the sector map and the trader
\* histories, each over the whole batch.
BuildAggregates ==
    /\ pc = "ready"
    /\ patterns' = Some(buildPatterns(tradesOf(allTrades), now))
    /\ sectorMap' = Some(SectorMapImpl)
    /\ histories' = Some(buildTraderHistories(allTrades))
    /\ ioLog' = ioLog \o <<"console.log", "console.log", "console.log">>
    /\ pc' = "aggregated"
    /\ UNCHANGED <<trade, trader, traderHistory, marketData, tradingPattern,
                   config, result, allTrades, now, query>>
    /\ UNCHANGED <<committeeData, marketDataProvider, marketDataMap, cursor,
                   scoredTrades, report>>
    /\ UNCHANGED <<taxonomyVars, amountVars, fetchVars, providerVars>>

\* Lines 158-168: await marketDataProvider.getMarketDataBatch(symbols), which
\* resolves with a Map or rejects; without a provider the Map stays empty.
ResolveMarketData ==
    /\ pc = "aggregated"
    /\ IF IsNull(marketDataProvider)
       THEN /\ marketDataMap' = Some(<<>>)
            /\ ioLog' = ioLog \o <<"console.log", "console.log">>
            /\ pc' = "scoring"
            /\ UNCHANGED report
       ELSE IF Val(marketDataProvider).threw
       THEN /\ ioLog' = ioLog \o <<"console.log", "getMarketDataBatch">>
            /\ report' = marketDataProvider
            /\ pc' = "rejected"
            /\ UNCHANGED marketDataMap
       ELSE /\ marketDataMap' = Some(Val(marketDataProvider).value)
            /\ ioLog' = ioLog \o <<"console.log", "getMarketDataBatch",
                                   "console.log">>
            /\ pc' = "scoring"
            /\ UNCHANGED report
    /\ UNCHANGED <<scorerVars, analysisVars, taxonomyVars, amountVars,
                   fetchVars, providerVars>>
    /\ UNCHANGED <<committeeData, marketDataProvider, cursor, scoredTrades>>

\* The loop body scoring by a market-data fetch of its own for each trade.
ScoreNextTrade_FetchesPerTrade ==
    /\ pc = "scoring"
    /\ cursor <= Len(allTrades)
    /\ ioLog' = Append(ioLog, "getMarketData")
    /\ scoredTrades' = Append(scoredTrades, allTrades[cursor])
    /\ cursor' = cursor + 1
    /\ UNCHANGED <<scorerVars, analysisVars, taxonomyVars, amountVars,
                   fetchVars, providerVars>>
    /\ UNCHANGED <<committeeData, marketDataProvider, marketDataMap, report, pc>>

\* Lines 171-207: one iteration of the scoring loop. An exception of
\* scoreTrade rejects analyzeTrades.
ScoreNextTrade ==
    /\ pc = "scoring"
    /\ cursor <= Len(allTrades)
    /\ LET t == allTrades[cursor].trade
           chamber == allTrades[cursor].chamber
           history == MapGet(Val(histories), getTraderId(t, chamber))
           who == buildTraderInput(t, chamber, committeeData)
           md == IF TruthyText(t.symbol)
                 THEN MapGet(Val(marketDataMap), Val(t.symbol)) ELSE NULL
           pattern == IF TruthyText(t.symbol)
                      THEN Some(getPattern(Val(patterns), Val(t.symbol)))
                      ELSE NULL
           score == scoreTrade(toTradeInput(t), who, Val(history), md, pattern,
                               sectorMap, config)
       IN  IF IsNull(history)
           THEN /\ cursor' = cursor + 1
                /\ UNCHANGED <<scoredTrades, report, pc>>
           ELSE IF score.threw
           THEN /\ report' = Some(score)
                /\ pc' = "rejected"
                /\ UNCHANGED <<scoredTrades, cursor>>
           ELSE /\ scoredTrades' =
                       Append(scoredTrades,
                              [trade |-> t, chamber |-> chamber,
                               trader |-> who, score |-> score.value])
                /\ cursor' = cursor + 1
                /\ UNCHANGED <<report, pc>>
    /\ UNCHANGED <<scorerVars, analysisVars, taxonomyVars, amountVars,
                   fetchVars, providerVars>>
    /\ UNCHANGED <<committeeData, marketDataProvider, marketDataMap, ioLog>>

\* Lines 209-250, once the loop has ended: the sort by date, the summary and
\* await saveReport, which resolves or rejects.
BuildAndSaveReport ==
    /\ pc = "scoring"
    /\ cursor > Len(allTrades)
    /\ scoredTrades' =
           sortDescending(scoredTrades,
                          [i \in DOMAIN scoredTrades |->
                              dateOrder(scoredTrades[i].trade)])
    /\ \E saved \in BOOLEAN :
           IF saved
           THEN /\ report' = Some(Return(
                       [config |-> config,
                        totalTradesAnalyzed |-> Len(allTrades),
                        scoredTrades |-> scoredTrades',
                        summary |-> summaryOf(scoredTrades')]))
                /\ ioLog' = ioLog \o <<"saveReport", "console.log">>
                /\ pc' = "returned"
           ELSE /\ report' = Some(Throw("saveReport rejected"))
                /\ ioLog' = Append(ioLog, "saveReport")
                /\ pc' = "rejected"
    /\ UNCHANGED <<scorerVars, analysisVars, taxonomyVars, amountVars,
                   fetchVars, providerVars>>
    /\ UNCHANGED <<committeeData, marketDataProvider, marketDataMap, cursor>>

NextAnalyze ==
    BuildAggregates \/ ResolveMarketData \/ ScoreNextTrade \/ BuildAndSaveReport

InitAnalyze(Senate, House, Datas, Providers) ==
    /\ \E senateTrades \in Senate, houseTrades \in House :
           allTrades =
               [i \in DOMAIN senateTrades |->
                   [trade |-> senateTrades[i], chamber |-> "senate"]]
               \o [i \in DOMAIN houseTrades |->
                      [trade |-> houseTrades[i], chamber |-> "house"]]
    /\ committeeData \in Datas
    /\ marketDataProvider \in Providers
    /\ now = 100 * HoursPerDay
    /\ patterns = NULL
    /\ query = NULL
    /\ histories = NULL
    /\ marketDataMap = NULL
    /\ cursor = 1
    /\ scoredTrades = <<>>
    /\ report = NULL
    /\ ioLog = <<>>
    /\ pc = "ready"
    /\ ScorerIdle /\ TaxonomyIdle /\ AmountIdle /\ FetchIdle /\ ProviderIdle

\* The dates and symbols of the batch, the committee data and the market-data
\* provider vary.
InitRun ==
    InitAnalyze(
        SeqsUpTo({FMPTrade(Some(NameExamples.Mary), Some(NameExamples.Lee),
                           Some(SymbolExamples.GE), d, NULL) :
                     d \in {NULL, Some(EmptyDate), Some(IsoDate(10)),
                            Some(IsoDate(100))}}
                 \cup {FMPTrade(Some(NameExamples.Mary), NULL, NULL,
                                Some(IsoDate(50)), NULL)},
                 MaxBatch),
        {<<>>,
         <<FMPTrade(Some(NameExamples.Mary), Some(NameExamples.Lee),
                    Some(SymbolExamples.F), Some(IsoDate(50)), NULL)>>},
        {NULL, Some(<<"SSBK">>)},
        {NULL,
         Some(Return([symbol \in {SymbolExamples.GE} |->
                         MarketData(Some(1), NULL, NULL)])),
         Some(Throw("getMarketDataBatch rejected"))})

SpecRun == InitRun /\ [][NextAnalyze]_vars

MaxReportBatch == 21    \* number of trades of a batch with a full summary

\* Batches longer than the summary lists: i old option trades and j recent
\* stock trades, in either order.
InitSummary ==
    LET old == [FMPTrade(Some(NameExamples.Mary), Some(NameExamples.Lee),
                         Some(SymbolExamples.GE), Some(IsoDate(10)), NULL)
                EXCEPT !.assetType = Some(T_StockOption)]
        recent == FMPTrade(Some(NameExamples.Mary), Some(NameExamples.Lee),
                           Some(SymbolExamples.F), Some(IsoDate(100)), NULL)
    IN  InitAnalyze(
            {[k \in 1..i |-> old] \o [k \in 1..(n - i) |-> recent] :
                n \in 0..MaxReportBatch, i \in 0..MaxReportBatch}
            \cup {[k \in 1..(n - i) |-> recent] \o [k \in 1..i |-> old] :
                     n \in 0..MaxReportBatch, i \in 0..MaxReportBatch},
            {<<>>}, {NULL}, {NULL})

SpecSummary == InitSummary /\ [][NextAnalyze]_vars

---------------------------------------------------------------------------
(* fetchTrades, step by step: the start date, one page of both chambers at *)
(* a time, then the filter, the merge and the save                         *)

\* Lines 86-135 of a call: the stored data is loaded unless refreshing, and
\* the start date follows from it.
StartFetch ==
    /\ pc \in {"ready", "fetched", "rejected"}
    /\ callNo < Len(fetchCalls)
    /\ callNo' = callNo + 1
    /\ existingData' = IF fetchCalls[callNo'].refresh THEN NULL ELSE storedTrades
    /\ startDate' = startDateOf(fetchCalls[callNo'].refresh, existingData',
                                fetchCalls[callNo'].targetDate)
    /\ allSenateTrades' = <<>>
    /\ allHouseTrades' = <<>>
    /\ senateDone' = FALSE
    /\ houseDone' = FALSE
    /\ page' = 0
    /\ requestLog' = <<>>
    /\ tradeData' = NULL
    /\ pc' = "paging"
    /\ UNCHANGED <<fetchCalls, storedTrades>>
    /\ UNCHANGED <<scorerVars, analysisVars, taxonomyVars, amountVars, runVars,
                   providerVars>>

\* The loop body requesting the page of both chambers, done or not.
FetchPage_RequestsDoneChamber ==
    /\ pc = "paging"
    /\ (~senateDone \/ ~houseDone) /\ page < maxPages
    /\ LET call == fetchCalls[callNo]
           senateAnswer == apiPage(call.senate, page)
           houseAnswer == apiPage(call.house, page)
           endsChamber(trades) ==
               \/ Len(trades) = 0
               \/ Len(trades) < call.limit
               \/ hasTradesOlderThan(trades, startDate)
       IN  /\ requestLog' = requestLog \o <<<<"senate", page>>, <<"house", page>>>>
           /\ IF senateAnswer.threw \/ houseAnswer.threw
              THEN /\ tradeData' = Some(IF senateAnswer.threw THEN senateAnswer
                                        ELSE houseAnswer)
                   /\ pc' = "rejected"
                   /\ UNCHANGED <<allSenateTrades, allHouseTrades, senateDone,
                                  houseDone, page>>
              ELSE /\ allSenateTrades' = allSenateTrades \o senateAnswer.value
                   /\ allHouseTrades' = allHouseTrades \o houseAnswer.value
                   /\ senateDone' = (senateDone \/ endsChamber(senateAnswer.value))
                   /\ houseDone' = (houseDone \/ endsChamber(houseAnswer.value))
                   /\ page' = page + 1
                   /\ UNCHANGED <<tradeData, pc>>
    /\ UNCHANGED <<fetchCalls, callNo, storedTrades, existingData, startDate>>
    /\ UNCHANGED <<scorerVars, analysisVars, taxonomyVars, amountVars, runVars,
                   providerVars>>

\* Lines 137-186: one iteration of the pagination loop. A chamber that is
\* done is not requested; a rejected request rejects fetchTrades.
FetchPage ==
    /\ pc = "paging"
    /\ (~senateDone \/ ~houseDone) /\ page < maxPages
    /\ LET call == fetchCalls[callNo]
           senateAnswer == IF ~senateDone THEN apiPage(call.senate, page)
                           ELSE Return(<<>>)
           houseAnswer == IF ~houseDone THEN apiPage(call.house, page)
                          ELSE Return(<<>>)
           endsChamber(trades) ==
               \/ Len(trades) = 0
               \/ Len(trades) < call.limit
               \/ hasTradesOlderThan(trades, startDate)
       IN  /\ requestLog' =
                  requestLog
                  \o (IF ~senateDone THEN <<<<"senate", page>>>> ELSE <<>>)
                  \o (IF ~houseDone THEN <<<<"house", page>>>> ELSE <<>>)
           /\ IF senateAnswer.threw \/ houseAnswer.threw
              THEN /\ tradeData' = Some(IF senateAnswer.threw THEN senateAnswer
                                        ELSE houseAnswer)
                   /\ pc' = "rejected"
                   /\ UNCHANGED <<allSenateTrades, allHouseTrades, senateDone,
                                  houseDone, page>>
              ELSE /\ allSenateTrades' = allSenateTrades \o senateAnswer.value
                   /\ allHouseTrades' = allHouseTrades \o houseAnswer.value
                   /\ senateDone' = endsChamber(senateAnswer.value)
                   /\ houseDone' = endsChamber(houseAnswer.value)
                   /\ page' = page + 1
                   /\ UNCHANGED <<tradeData, pc>>
    /\ UNCHANGED <<fetchCalls, callNo, storedTrades, existingData, startDate>>
    /\ UNCHANGED <<scorerVars, analysisVars, taxonomyVars, amountVars, runVars,
                   providerVars>>

\* Lines 188-236, once the loop has ended: the filter by start date, the merge
\* with the existing data, and await saveData, which resolves or rejects.
FinishFetch ==
    /\ pc = "paging"
    /\ ~((~senateDone \/ ~houseDone) /\ page < maxPages)
    /\ LET newSenateTrades == notOlderThan(allSenateTrades, startDate)
           newHouseTrades == notOlderThan(allHouseTrades, startDate)
           merging == ~fetchCalls[callNo].refresh /\ ~IsNull(existingData)
           final ==
               [senateTrades |->
                    IF merging
                    THEN mergeTrades(Val(existingData).senateTrades,
                                     newSenateTrades)
                    ELSE newSenateTrades,
                houseTrades |->
                    IF merging
                    THEN mergeTrades(Val(existingData).houseTrades,
                                     newHouseTrades)
                    ELSE newHouseTrades]
       IN  \E saved \in BOOLEAN :
               IF saved
               THEN /\ storedTrades' = Some(final)
                    /\ tradeData' = Some(Return(final))
                    /\ pc' = "fetched"
               ELSE /\ tradeData' = Some(Throw("saveData rejected"))
                    /\ pc' = "rejected"
                    /\ UNCHANGED storedTrades
    /\ UNCHANGED <<fetchCalls, callNo, existingData, startDate, allSenateTrades,
                   allHouseTrades, senateDone, houseDone, page, requestLog>>
    /\ UNCHANGED <<scorerVars, analysisVars, taxonomyVars, amountVars, runVars,
                   providerVars>>

NextFetch == StartFetch \/ FetchPage \/ FinishFetch

InitFetch(Calls, Stored) ==
    /\ fetchCalls \in Calls
    /\ storedTrades \in Stored
    /\ callNo = 0
    /\ existingData = NULL
    /\ startDate = 0
    /\ allSenateTrades = <<>>
    /\ allHouseTrades = <<>>
    /\ senateDone = FALSE
    /\ houseDone = FALSE
    /\ page = 0
    /\ requestLog = <<>>
    /\ tradeData = NULL
    /\ pc = "ready"
    /\ ScorerIdle /\ AnalysisIdle /\ TaxonomyIdle /\ AmountIdle /\ RunIdle
    /\ ProviderIdle

\* The trades the API has on offer: two recent ones, one older than the
\* target date, and one without a date.
FetchExamples ==
    [recent |-> FMPTrade(Some(NameExamples.Mary), Some(NameExamples.Lee),
                         Some(SymbolExamples.GE), Some(IsoDate(100)), NULL),
     dayBefore |-> FMPTrade(Some(NameExamples.Mary), Some(NameExamples.Lee),
                            Some(SymbolExamples.F), Some(IsoDate(99)), NULL),
     old |-> FMPTrade(Some(NameExamples.Mary), Some(NameExamples.Lee),
                      Some(SymbolExamples.GE), Some(IsoDate(80)), NULL),
     undated |-> FMPTrade(Some(NameExamples.Mary), Some(NameExamples.Lee),
                          Some(SymbolExamples.F), NULL, NULL)]

\* One first fetch with nothing stored, alone or followed by an incremental
\* fetch; pages of one trade; the API offers each chamber up to MaxBatch
\* pages, any of which may repeat a trade or be rejected.
InitIncremental ==
    LET E == FetchExamples
        senatePages == {Return(<<E.recent>>), Return(<<E.dayBefore>>),
                        Return(<<E.old>>), Throw("request rejected")}
        calls ==
            {[refresh |-> FALSE, targetDate |-> 90 * HoursPerDay, limit |-> 1,
              senate |-> [head |-> h, fullPages |-> 0, full |-> <<E.recent>>],
              house |-> [head |-> g, fullPages |-> 0, full |-> <<E.recent>>]] :
                h \in SeqsUpTo(senatePages, MaxBatch),
                g \in {<<>>, <<Return(<<E.undated>>), Return(<<E.undated>>)>>}}
    IN  InitFetch({<<c>> : c \in calls} \cup {<<c, d>> : c \in calls, d \in calls},
                  {NULL})

SpecIncremental == InitIncremental /\ [][NextFetch]_vars

\* One call with pages of two trades: each chamber answers a first page that
\* is short, full, full with an old trade, or rejected, or goes straight to
\* its run of full pages, which is absent, short, or longer than maxPages.
InitPaging ==
    LET E == FetchExamples
        heads == {<<>>, <<Return(<<E.recent>>)>>,
                  <<Return(<<E.recent, E.dayBefore>>)>>,
                  <<Return(<<E.recent, E.old>>)>>,
                  <<Throw("request rejected")>>}
        scripts == {[head |-> h, fullPages |-> n,
                     full |-> <<E.recent, E.recent>>] :
                       h \in heads, n \in {0, 3, maxPages + 10}}
    IN  InitFetch({<<[refresh |-> r, targetDate |-> 90 * HoursPerDay,
                      limit |-> 2, senate |-> a, house |-> b]>> :
                      r \in BOOLEAN, a \in scripts, b \in scripts},
                  {NULL, Some([senateTrades |-> <<E.recent>>,
                               houseTrades |-> <<>>])})

SpecPaging == InitPaging /\ [][NextFetch]_vars

---------------------------------------------------------------------------
(* The market-data provider, step by step: a call starts, then issues one  *)
(* HTTP request at a time                                                  *)

\* The state a provider call leaves as it found it, whatever the method.
CallStarts(method) ==
    /\ pc \in {"ready", "returned"}
    /\ providerCalls # <<>>
    /\ Head(providerCalls).method = method
    /\ providerCalls' = Tail(providerCalls)
    /\ clock' = IF Head(providerCalls).at > clock THEN Head(providerCalls).at
                ELSE clock
    /\ fetched' = 0
    /\ retryCount' = 0
    /\ UNCHANGED <<cacheConfig, cacheFile, unavailableSymbols>>
    /\ UNCHANGED <<scorerVars, analysisVars, taxonomyVars, amountVars, runVars,
                   fetchVars>>

\* getMarketData, lines 78-90: the cache, then the unavailable symbols, then
\* the API.
GetMarketData ==
    /\ CallStarts("getMarketData")
    /\ LET symbol == Head(providerCalls).symbols[1]
       IN  /\ providerCall' =
                  Some([method |-> "getMarketData", symbols |-> <<symbol>>,
                        startedAt |-> clock', cacheBefore |-> cache,
                        unavailableBefore |-> unavailableSymbols])
           /\ IF isCacheValid(cache, symbol, clock', cacheConfig)
              THEN /\ providerAnswer' = Some(Return(Some(cache[symbol].data)))
                   /\ uncached' = <<>>
                   /\ fetchLog' = <<>>
                   /\ pc' = "returned"
              ELSE IF symbol \in unavailableSymbols
              THEN /\ providerAnswer' = Some(Return(NULL))
                   /\ uncached' = <<>>
                   /\ fetchLog' = <<>>
                   /\ pc' = "returned"
              ELSE /\ providerAnswer' = NULL
                   /\ uncached' = <<symbol>>
                   /\ fetchLog' = <<startedFetch(symbol)>>
                   /\ pc' = "fetching"
    /\ UNCHANGED <<cache, results>>

\* getMarketDataBatch, lines 106-130: the cache file is loaded, the symbols of
\* a valid entry are answered from it, the others are left to fetch unless
\* unavailable.
GetMarketDataBatch ==
    /\ CallStarts("getMarketDataBatch")
    /\ LET symbols == Head(providerCalls).symbols
           loaded == IF IsNull(cacheFile) THEN cache ELSE Val(cacheFile)
           hits == {x \in Range(symbols) :
                       isCacheValid(loaded, x, clock', cacheConfig)}
           toFetch == SelectSeq(symbols,
                                LAMBDA x : x \notin hits
                                           /\ x \notin unavailableSymbols)
       IN  /\ cache' = loaded
           /\ results' = [x \in hits |-> loaded[x].data]
           /\ uncached' = toFetch
           /\ providerCall' =
                  Some([method |-> "getMarketDataBatch", symbols |-> symbols,
                        startedAt |-> clock', cacheBefore |-> loaded,
                        unavailableBefore |-> unavailableSymbols])
           /\ IF toFetch = <<>>
              THEN /\ providerAnswer' = Some(Return(results'))
                   /\ fetchLog' = <<>>
                   /\ pc' = "returned"
              ELSE /\ providerAnswer' = NULL
                   /\ fetchLog' = <<startedFetch(toFetch[1])>>
                   /\ pc' = "fetching"

\* One request of fetchFromAPI (lines 176-227) and what follows its answer up
\* to the next request: a retry after the backoff, or the return of
\* fetchFromAPI and the caller's bookkeeping (lines 92-100, 143-169).
\* saveCache is taken to succeed.
HttpRequest ==
    /\ pc = "fetching"
    /\ \E status \in Responses :
           LET symbol == uncached[fetched + 1]
               last == Len(fetchLog)
               asked == [fetchLog[last] EXCEPT !.statuses = Append(@, status)]
           IN  IF status = "429" /\ retryCount < MAX_RETRIES
               THEN /\ fetchLog' =
                           [fetchLog EXCEPT ![last] =
                               [asked EXCEPT !.sleeps =
                                   Append(@, backoffMs(retryCount))]]
                    /\ clock' = clock + backoffMs(retryCount)
                    /\ retryCount' = retryCount + 1
                    /\ UNCHANGED <<cache, cacheFile, unavailableSymbols, results,
                                   fetched, providerAnswer, pc>>
               ELSE LET data == IF status = "200" THEN Some(profileOf(symbol))
                                ELSE NULL
                        ended == [fetchLog EXCEPT ![last] =
                                     [asked EXCEPT !.returned = <<data>>,
                                                   !.at = clock]]
                    IN  /\ unavailableSymbols' =
                               IF status = "402"
                               THEN unavailableSymbols \cup {symbol}
                               ELSE unavailableSymbols
                        /\ cache' =
                               IF IsNull(data) THEN cache
                               ELSE MapSet(cache, symbol,
                                           [data |-> Val(data),
                                            fetchedAt |-> clock])
                        /\ retryCount' = 0
                        /\ IF Val(providerCall).method = "getMarketData"
                           THEN /\ providerAnswer' = Some(Return(data))
                                /\ fetchLog' = ended
                                /\ pc' = "returned"
                                /\ UNCHANGED <<results, fetched, clock, cacheFile>>
                           ELSE /\ results' =
                                       IF IsNull(data) THEN results
                                       ELSE MapSet(results, symbol, Val(data))
                                /\ fetched' = fetched + 1
                                /\ IF fetched' < Len(uncached)
                                   THEN /\ clock' = clock + REQUEST_DELAY_MS
                                        /\ fetchLog' =
                                               Append(ended,
                                                      startedFetch(uncached[fetched' + 1]))
                                        /\ UNCHANGED <<cacheFile, providerAnswer, pc>>
                                   ELSE /\ cacheFile' = Some(cache')
                                        /\ providerAnswer' = Some(Return(results'))
                                        /\ fetchLog' = ended
                                        /\ pc' = "returned"
                                        /\ UNCHANGED clock
    /\ UNCHANGED <<providerCalls, cacheConfig, providerCall, uncached>>
    /\ UNCHANGED <<scorerVars, analysisVars, taxonomyVars, amountVars, runVars,
                   fetchVars>>

NextProvider == GetMarketData \/ GetMarketDataBatch \/ HttpRequest

InitProvider(Calls, Files, Configs) ==
    /\ providerCalls \in Calls
    /\ cacheFile \in Files
    /\ cacheConfig \in Configs
    /\ clock = 0
    /\ cache = <<>>
    /\ unavailableSymbols = {}
    /\ providerCall = NULL
    /\ results = <<>>
    /\ uncached = <<>>
    /\ fetched = 0
    /\ retryCount = 0
    /\ fetchLog = <<>>
    /\ providerAnswer = NULL
    /\ pc = "ready"
    /\ ScorerIdle /\ AnalysisIdle /\ TaxonomyIdle /\ AmountIdle /\ RunIdle
    /\ FetchIdle

\* A cache file holding GE as fetched at time 0 and F as fetched a minute
\* later.
CacheFileExample ==
    [symbol \in {SymbolExamples.GE, SymbolExamples.F} |->
        [data |-> profileOf(symbol),
         fetchedAt |-> IF symbol = SymbolExamples.GE THEN 0 ELSE 60000]]

\* One or two calls on one provider with a time to live of 100 seconds: the
\* first while both entries of the file are valid or after the older one
\* expired, the second while the entries of a late first call are valid and
\* those of the file are not.
InitCaching ==
    LET GE == SymbolExamples.GE
        F == SymbolExamples.F
        first == {[method |-> m[1], symbols |-> m[2], at |-> t] :
                     m \in {<<"getMarketDataBatch", <<GE>>>>,
                            <<"getMarketDataBatch", <<GE, F>>>>,
                            <<"getMarketDataBatch", <<GE, GE>>>>,
                            <<"getMarketData", <<GE>>>>},
                     t \in {90000, 150000}}
        second == {[method |-> m[1], symbols |-> m[2], at |-> 240000] :
                      m \in {<<"getMarketDataBatch", <<F, GE>>>>,
                             <<"getMarketData", <<GE>>>>}}
    IN  InitProvider({<<c>> : c \in first}
                     \cup {<<c, d>> : c \in first, d \in second},
                     {NULL, Some(CacheFileExample)},
                     {[ttlMs |-> 100000, maxEntries |-> 1000]})

SpecCaching == InitCaching /\ [][NextProvider]_vars

\* A provider configured to cache one entry, asked for two symbols.
InitCapacity ==
    InitProvider({<<[method |-> "getMarketData",
                     symbols |-> <<SymbolExamples.F>>, at |-> 1000],
                    [method |-> "getMarketDataBatch",
                     symbols |-> <<SymbolExamples.GE, SymbolExamples.F>>,
                     at |-> 2000]>>},
                 {NULL, Some([symbol \in {SymbolExamples.GE} |->
                                 CacheFileExample[symbol]])},
                 {[ttlMs |-> 100000, maxEntries |-> 1]})

SpecCapacity == InitCapacity /\ [][NextProvider]_vars

---------------------------------------------------------------------------
(* Properties of scoreTrade                                                *)

Returned == pc = "done" /\ ~Val(result).threw
Threw == pc = "done" /\ Val(result).threw
Outcome == Val(result).value

\* The weighted sum of the returned factors, in hundredths.
WeightedHundredths(f, w) ==
    f.marketCapScore * w.marketCap + f.convictionScore * w.conviction
    + f.rarityScore * w.rarity
    + f.committeeRelevanceScore * w.committeeRelevance
    + f.derivativeScore * w.derivative + f.ownershipScore * w.ownership

\* C1: the overall score of every returned result is the weighted sum of the
\* six sub-scores of result.factors, with the weights of the supplied config,
\* rounded to the nearest integer (a tie going up); with the default weights
\* the factors (0,0,0,0,0,75) give 4.
C1_OverallIsRoundedWeightedSum ==
    Returned =>
        LET s == WeightedHundredths(Outcome.factors, config.weights)
        IN  /\ 100 * Outcome.overallScore - 50 <= s
            /\ s < 100 * Outcome.overallScore + 50
            /\ (config = DEFAULT_SCORING_CONFIG
                /\ Outcome.factors =
                       [marketCapScore |-> 0, convictionScore |-> 0,
                        rarityScore |-> 0, committeeRelevanceScore |-> 0,
                        derivativeScore |-> 0, ownershipScore |-> 75])
               => Outcome.overallScore = 4

C1_Witness ==
    /\ Returned
    /\ config = DEFAULT_SCORING_CONFIG
    /\ Outcome.factors.ownershipScore = 75
    /\ Outcome.factors.rarityScore = 0
    /\ Outcome.overallScore = 4

\* C2: scoreTrade never throws: every call returns a UniquenessResult, whatever
\* optional inputs are null.
C2_NeverThrows == ~Threw

\* C3: in every returned result each of the six sub-scores lies in 0..100.
C3_FactorsInRange ==
    Returned =>
        /\ Outcome.factors.marketCapScore \in 0..100
        /\ Outcome.factors.convictionScore \in 0..100
        /\ Outcome.factors.rarityScore \in 0..100
        /\ Outcome.factors.committeeRelevanceScore \in 0..100
        /\ Outcome.factors.derivativeScore \in 0..100
        /\ Outcome.factors.ownershipScore \in 0..100

\* The maximal rarity case: base 100 plus bonus 25, clamped to 100.
C3_Witness ==
    /\ Returned
    /\ ~IsNull(tradingPattern)
    /\ Val(tradingPattern).totalTrades = 1
    /\ Val(tradingPattern).uniqueTraders = 1
    /\ Outcome.factors.rarityScore = 100

\* C4: the overall score of every returned result is clamped to 0..100, also
\* for weights that do not sum to 1.
C4_OverallClamped == Returned => Outcome.overallScore \in 0..100

Bucket(cap, th) ==
    IF cap < th.micro THEN 100
    ELSE IF cap < th.small THEN 75
    ELSE IF cap < th.mid THEN 25
    ELSE 0

\* C5: the market-cap sub-score is 0 when marketData or its marketCap is null;
\* otherwise, with thresholds micro < small < mid, a cap below micro scores
\* 100, below small 75, below mid 25, and at or above mid 0.
C5_MarketCapBuckets ==
    Returned =>
        IF IsNull(marketData) \/ IsNull(Val(marketData).marketCap)
        THEN Outcome.factors.marketCapScore = 0
        ELSE (config.marketCap.micro < config.marketCap.small
              /\ config.marketCap.small < config.marketCap.mid)
             => Outcome.factors.marketCapScore
                    = Bucket(Val(Val(marketData).marketCap), config.marketCap)

\* C6: with the thresholds fixed, the market-cap sub-score of a cap a is at
\* least that of every larger cap b, for all caps including 0.
C6_MarketCapMonotone ==
    (Returned /\ ~IsNull(marketData) /\ ~IsNull(Val(marketData).marketCap)) =>
        \A b \in (0 - 1)..MaxCap :
            Val(Val(marketData).marketCap) < b
            => Outcome.factors.marketCapScore
                   >= scoreMarketCap(Some(MarketData(Some(b), NULL, NULL)), config)

\* The multiplier ((low + high) / 2) / averageTradeSize as a rational.
Multiplier ==
    [num |-> (Val(trade.amount).low + Val(trade.amount).high)
             * Val(traderHistory.averageTradeSize).den,
     den |-> 2 * Val(traderHistory.averageTradeSize).num]
\* r >= tenths / 10, for a rational r of positive denominator.
AtLeastTenths(r, tenths) == 10 * r.num >= tenths * r.den

ConvictionHasData ==
    /\ ~IsNull(trade.amount)
    /\ ~IsNull(traderHistory.averageTradeSize)
    /\ Val(traderHistory.averageTradeSize).num # 0

C8_RarityBands ==
    Returned =>
        LET score == Outcome.factors.rarityScore
        IN  IF IsNull(tradingPattern) THEN score = 50
            ELSE LET n == Val(tradingPattern).totalTrades
                     u == Val(tradingPattern).uniqueTraders
                     base == CASE n <= config.rarity.unique -> 100
                               [] n > config.rarity.unique
                                  /\ n <= config.rarity.rare -> 75
                               [] n > config.rarity.unique
                                  /\ n > config.rarity.rare
                                  /\ n <= config.rarity.uncommon -> 50
                               [] OTHER -> 0
                     bonus == CASE u = 1 -> 25
                                [] u # 1 /\ u <= 3 -> 10
                                [] OTHER -> 0
                 IN  /\ score <= 100
                     /\ score <= base + bonus
                     /\ score = 100 \/ score = base + bonus
                     /\ (config = DEFAULT_SCORING_CONFIG /\ n = 2 /\ u = 1)
                        => score = 100
                     /\ (config = DEFAULT_SCORING_CONFIG /\ n = 50 /\ u = 30)
                        => score = 0

C8_Witness ==
    /\ Returned
    /\ config = DEFAULT_SCORING_CONFIG
    /\ ~IsNull(tradingPattern)
    /\ Val(tradingPattern).totalTrades = 2
    /\ Val(tradingPattern).uniqueTraders = 1
    /\ Outcome.factors.rarityScore = 100

\* Every sector and industry any of the trader's committees covers.
TraderTagUnion ==
    UNION {Range(getCommitteeSectors(trader.committees[i]))
           \cup Range(getCommitteeIndustries(trader.committees[i])) :
               i \in DOMAIN trader.committees}

\* The stock's own tags: its sector and its industry, those that are present.
StockOwnTags == Range(stockTagsOf(marketData))

ScoreOfCount(n) == IF n = 0 THEN 0 ELSE IF n >= 2 THEN 100 ELSE 75

CommitteeCall ==
    pc = "done" /\ ~IsNull(sectorMap) /\ TruthyText(trade.symbol)

\* C9: called with a sector map, scoreTrade returns a committee-relevance
\* sub-score decided by the number of the stock's tags (sector, industry) found
\* in the union of the sectors and industries of all the trader's committees:
\* none 0, one 75, two or more 100; 0 without committees or without tags.
C9_TagUnionIntersection ==
    CommitteeCall =>
        /\ ~Val(result).threw
        /\ Outcome.factors.committeeRelevanceScore =
               ScoreOfCount(Cardinality(StockOwnTags \cap TraderTagUnion))

\* C10: called with a sector map, scoreTrade returns a committee-relevance
\* sub-score decided by the number of the trader's committees that have
\* jurisdiction over the stock's sector or industry: none 0, one 75, two or
\* more 100.
C10_CommitteeCount ==
    CommitteeCall =>
        /\ ~Val(result).threw
        /\ Outcome.factors.committeeRelevanceScore =
               ScoreOfCount(Len(checkCommitteeRelevance(
                                    trader.committees,
                                    Val(marketData).sector,
                                    Val(marketData).industry).overlappingCommittees))

\* Two characters that are the same letter in either case, or the same
\* character.
SameLetter(a, b) ==
    \/ a = b
    \/ \E i \in DOMAIN UpperChars :
           {a, b} = {UpperChars[i], LowerChars[i]}

\* The text contains the keyword at some position, letter case disregarded.
ContainsIgnoringCase(text, kw) ==
    \E i \in 1..Len(text) :
        /\ i + Len(kw) - 1 <= Len(text)
        /\ \A j \in 1..Len(kw) : SameLetter(text[i + j - 1], kw[j])

WithAssetType(t, text) == [t EXCEPT !.assetType = Some(text)]

\* C11: the derivative sub-score is 0 for a null or empty asset type; otherwise
\* 100 when the text contains "option", "warrant" or "right" in any letter
\* case, else 75 when it contains "future" or "derivative", else 0; the score
\* of the text equals that of its upper-cased and of its lower-cased form;
\* "Stock Option" gives 100 and "Common Stock" gives 0.
C11_DerivativeClassifies ==
    Returned =>
        LET ty == trade.assetType
            score == Outcome.factors.derivativeScore
        IN  /\ (IsNull(ty) \/ Val(ty) = <<>>) => score = 0
            /\ (~IsNull(ty) /\ Val(ty) # <<>>) =>
                   /\ score =
                          IF \/ ContainsIgnoringCase(Val(ty), KW_option)
                             \/ ContainsIgnoringCase(Val(ty), KW_warrant)
                             \/ ContainsIgnoringCase(Val(ty), KW_right)
                          THEN 100
                          ELSE IF \/ ContainsIgnoringCase(Val(ty), KW_future)
                                  \/ ContainsIgnoringCase(Val(ty), KW_derivative)
                          THEN 75
                          ELSE 0
                   /\ score = scoreDerivative(WithAssetType(trade, toUpperCase(Val(ty))))
                   /\ score = scoreDerivative(WithAssetType(trade, toLowerCase(Val(ty))))
            /\ ty = Some(T_StockOption) => score = 100
            /\ ty = Some(T_CommonStock) => score = 0

\* A mixed-case spelling of "option" scored 100.
C11_Witness ==
    /\ Returned
    /\ trade.assetType = Some(<<"o", "P", "t", "I", "o", "N">>)
    /\ Outcome.factors.derivativeScore = 100

WithOwner(t, text) == [t EXCEPT !.owner = Some(text)]

\* C12: the ownership sub-score is 0 for a null or empty owner; otherwise the
\* tiers are tested in this order, letter case disregarded: a text containing
\* "child" or "dependent" scores 100, else one containing "spouse" scores 75,
\* else one containing "joint" scores 25, else 0, also for a text with several
\* keywords; the score of the text equals that of its upper-cased and of its
\* lower-cased form; "SPOUSE" and "spouse" give 75.
C12_OwnershipTiers ==
    Returned =>
        LET ow == trade.owner
            score == Outcome.factors.ownershipScore
        IN  /\ (IsNull(ow) \/ Val(ow) = <<>>) => score = 0
            /\ (~IsNull(ow) /\ Val(ow) # <<>>) =>
                   /\ score =
                          IF \/ ContainsIgnoringCase(Val(ow), KW_child)
                             \/ ContainsIgnoringCase(Val(ow), KW_dependent)
                          THEN 100
                          ELSE IF ContainsIgnoringCase(Val(ow), KW_spouse) THEN 75
                          ELSE IF ContainsIgnoringCase(Val(ow), KW_joint) THEN 25
                          ELSE 0
                   /\ score = scoreOwnership(WithOwner(trade, toUpperCase(Val(ow))))
                   /\ score = scoreOwnership(WithOwner(trade, toLowerCase(Val(ow))))
            /\ ow \in {Some(KW_spouse), Some(toUpperCase(KW_spouse))} => score = 75

\* C13: in every returned result each of the six flags is true exactly when
\* its own sub-score is at least 50.
C13_FlagsIffAtLeast50 ==
    Returned =>
        LET f == Outcome.factors
            g == Outcome.flags
        IN  /\ g.isSmallCap <=> f.marketCapScore >= 50
            /\ g.isHighConviction <=> f.convictionScore >= 50
            /\ g.isRareStock <=> f.rarityScore >= 50
            /\ g.hasCommitteeRelevance <=> f.committeeRelevanceScore >= 50
            /\ g.isDerivative <=> f.derivativeScore >= 50
            /\ g.isIndirectOwnership <=> f.ownershipScore >= 50

\* A result with a sub-score of exactly 50 (flag set), one of 25 (flag clear)
\* and one of 75 (flag set).
C13_Witness ==
    /\ Returned
    /\ Outcome.factors.rarityScore = 50 /\ Outcome.flags.isRareStock
    /\ Outcome.factors.ownershipScore = 25 /\ ~Outcome.flags.isIndirectOwnership
    /\ Outcome.factors.marketCapScore = 25 /\ ~Outcome.flags.isSmallCap
    /\ Outcome.factors.derivativeScore = 75 /\ Outcome.flags.isDerivative
    /\ Outcome.factors.committeeRelevanceScore = 75
    /\ Outcome.flags.hasCommitteeRelevance

\* C14: in every returned result the explanation holds a factor's sub-object
\* exactly when the factor had its data: marketCap when a market cap value was
\* available; conviction when the amount and a nonzero average were; rarity
\* when a pattern was supplied; committeeRelevance when the trader has a
\* committee and the stock resolves to at least one sector or industry tag
\* (also when nothing overlaps); derivative when assetType is non-null;
\* ownership when owner is non-null.
C14_ExplanationPresence ==
    Returned =>
        LET e == Outcome.explanation
        IN  /\ ~IsNull(e.marketCap)
                   <=> (~IsNull(marketData) /\ ~IsNull(Val(marketData).marketCap))
            /\ ~IsNull(e.conviction) <=> ConvictionHasData
            /\ ~IsNull(e.rarity) <=> ~IsNull(tradingPattern)
            /\ ~IsNull(e.committeeRelevance)
                   <=> (/\ Len(trader.committees) > 0
                        /\ ~IsNull(sectorMap)
                        /\ TruthyText(trade.symbol)
                        /\ ~IsNull(marketData)
                        /\ StockOwnTags # {})
            /\ ~IsNull(e.derivative) <=> ~IsNull(trade.assetType)
            /\ ~IsNull(e.ownership) <=> ~IsNull(trade.owner)

\* C29: the explanation agrees with the score it explains: for a trade with
\* a non-null asset type, explanation.derivative.isDerivative is true exactly
\* when derivativeScore > 0, which is when flags.isDerivative is true; for a
\* trade with a non-null owner, explanation.ownership.isIndirect is true
\* exactly when ownershipScore > 0.
C29_ExplanationAgreesWithScore ==
    Returned =>
        LET derivative == Outcome.explanation.derivative
            ownership == Outcome.explanation.ownership
        IN  /\ ~IsNull(trade.assetType) =>
                   /\ (~IsNull(derivative) /\ Val(derivative).isDerivative)
                          <=> Outcome.factors.derivativeScore > 0
                   /\ Outcome.flags.isDerivative
                          <=> Outcome.factors.derivativeScore > 0
            /\ ~IsNull(trade.owner) =>
                   (~IsNull(ownership) /\ Val(ownership).isIndirect)
                       <=> Outcome.factors.ownershipScore > 0

---------------------------------------------------------------------------
(* Properties of the pattern analyzer                                      *)

Built == pc \in {"built", "queried"}
BatchTrades == tradesOf(allTrades)

\* The positions of the batch whose trade carries the symbol, letter case
\* disregarded; a null or empty symbol is carried by none.
Carrying(symbol) ==
    {i \in DOMAIN BatchTrades :
        /\ TruthyText(BatchTrades[i].symbol)
        /\ toUpperCase(Val(BatchTrades[i].symbol)) = toUpperCase(symbol)}

\* The (firstName, lastName) pair of a trade, letter case disregarded.
NormalizedPair(t) ==
    <<IF IsNull(t.firstName) THEN NULL ELSE Some(toLowerCase(Val(t.firstName))),
      IF IsNull(t.lastName) THEN NULL ELSE Some(toLowerCase(Val(t.lastName)))>>

\* C15: the pattern index has one entry for each upper-cased non-empty symbol
\* of the batch and none for a null or empty symbol; an entry's totalTrades is
\* the number of trades of its group and its uniqueTraders the number of
\* distinct (firstName, lastName) pairs of the group, letter case disregarded:
\* different pairs are never counted as one and a pair in two casings counts
\* once; a symbol seen once has totalTrades 1 and uniqueTraders 1.
C15_PatternIndex ==
    Built =>
        /\ DOMAIN Val(patterns) =
               {toUpperCase(Val(BatchTrades[i].symbol)) :
                   i \in {j \in DOMAIN BatchTrades :
                             TruthyText(BatchTrades[j].symbol)}}
        /\ \A symbol \in DOMAIN Val(patterns) :
               LET p == Val(patterns)[symbol]
               IN  /\ p.totalTrades = Cardinality(Carrying(symbol))
                   /\ p.uniqueTraders =
                          Cardinality({NormalizedPair(BatchTrades[i]) :
                                          i \in Carrying(symbol)})
                   /\ Cardinality(Carrying(symbol)) = 1
                      => (p.totalTrades = 1 /\ p.uniqueTraders = 1)

PatternFields == {"symbol", "totalTrades", "uniqueTraders", "recentTrades"}

\* C16: getPattern answers every symbol with a pattern, never null: for a
\* symbol no trade of the batch carries, one with totalTrades, uniqueTraders
\* and recentTrades 0; and every re-casing of the symbol gets the same answer.
C16_GetPatternTotal ==
    pc = "queried" =>
        LET q == Val(query)
        IN  /\ DOMAIN q.pattern = PatternFields
            /\ Carrying(q.symbol) = {} =>
                   /\ q.pattern.totalTrades = 0
                   /\ q.pattern.uniqueTraders = 0
                   /\ q.pattern.recentTrades = 0
            /\ Carrying(q.symbol) # {} =>
                   q.pattern.totalTrades = Cardinality(Carrying(q.symbol))
            /\ \A s \in Recasings(q.symbol) :
                   getPattern(Val(patterns), s) = q.pattern

\* A symbol the batch does not carry, asked of a non-empty index.
C16_Witness ==
    /\ pc = "queried"
    /\ Val(query).symbol = SymbolExamples.ZZ
    /\ DOMAIN Val(patterns) # {}
    /\ Val(query).pattern.totalTrades = 0
    /\ Val(query).pattern.uniqueTraders = 0

\* The time a transactionDate names, when it names one.
HasTime(t) ==
    ~IsNull(t.transactionDate) /\ Val(t.transactionDate).kind = "iso"
TimeOf(t) == Val(t.transactionDate).day * HoursPerDay

\* C17: an entry's recentTrades is the number of trades of its group whose
\* transaction date lies within 90 days of the time of the run; a trade
\* without a transaction date is not counted, and recentTrades <= totalTrades.
C17_RecentWithinNinetyDays ==
    Built =>
        \A symbol \in DOMAIN Val(patterns) :
            LET p == Val(patterns)[symbol]
            IN  /\ p.recentTrades =
                       Cardinality({i \in Carrying(symbol) :
                                       /\ HasTime(BatchTrades[i])
                                       /\ TimeOf(BatchTrades[i]) >= now - NinetyDays
                                       /\ TimeOf(BatchTrades[i]) <= now + NinetyDays})
                /\ p.recentTrades <= p.totalTrades

---------------------------------------------------------------------------
(* Properties of the taxonomy lookups                                      *)

InTaxonomy(committeeId) == committeeId \in DOMAIN committeeMap

\* C18: hasCommitteeOverlap is true exactly when the sector is in the
\* committee's sector list or the industry is in its industry list, either
\* alone sufficing and a null sector or industry never matching; for a
\* committee id absent from the taxonomy getCommitteeSectors and
\* getCommitteeIndustries answer the empty list and hasCommitteeOverlap false.
C18_OverlapIsSectorOrIndustry ==
    pc = "done" /\ ~IsNull(overlap) =>
        LET id == lookup.committeeId
            answer == Val(overlap).value
        IN  /\ Val(overlap).call = "getCommitteeSectors" =>
                   answer = IF InTaxonomy(id) THEN committeeMap[id].sectors
                            ELSE <<>>
            /\ Val(overlap).call = "getCommitteeIndustries" =>
                   answer = IF InTaxonomy(id) THEN committeeMap[id].industries
                            ELSE <<>>
            /\ Val(overlap).call = "hasCommitteeOverlap" =>
                   (answer <=>
                       /\ InTaxonomy(id)
                       /\ \/ \E i \in DOMAIN committeeMap[id].sectors :
                                 lookup.stockSector
                                     = Some(committeeMap[id].sectors[i])
                          \/ \E i \in DOMAIN committeeMap[id].industries :
                                 lookup.stockIndustry
                                     = Some(committeeMap[id].industries[i]))

\* An industry match alone, with a null sector.
C18_Witness ==
    /\ pc = "done" /\ ~IsNull(overlap)
    /\ Val(overlap).call = "hasCommitteeOverlap"
    /\ lookup.committeeId = "SSFR"
    /\ lookup.stockSector = NULL
    /\ lookup.stockIndustry = Some("Aerospace & Defense")
    /\ Val(overlap).value = TRUE

---------------------------------------------------------------------------
(* Properties of parseAmountRange                                          *)

\* The amount text without its "$" and "," characters.
Kept ==
    IF IsNull(amountInput) THEN <<>>
    ELSE SelectSeq(Val(amountInput), LAMBDA c : c # "$" /\ c # ",")

\* Positions i..j of Kept hold a maximal run of digits.
IsRun(i, j) ==
    /\ i <= j
    /\ \A k \in i..j : IsDigit(Kept[k])
    /\ (i = 1 \/ ~IsDigit(Kept[i - 1]))
    /\ (j = Len(Kept) \/ ~IsDigit(Kept[j + 1]))

Runs == {r \in (DOMAIN Kept) \X (DOMAIN Kept) : IsRun(r[1], r[2])}

RECURSIVE Power10(_)
Power10(n) == IF n = 0 THEN 1 ELSE 10 * Power10(n - 1)

RECURSIVE SumDigits(_, _)
\* The decimal number written at positions r[1]..r[2] of Kept, summed from
\* position k on.
SumDigits(r, k) ==
    IF k > r[2] THEN 0
    ELSE DigitValue(Kept[k]) * Power10(r[2] - k) + SumDigits(r, k + 1)

NumberAt(r) == SumDigits(r, r[1])

FirstRun == CHOOSE r \in Runs : \A q \in Runs : r[1] <= q[1]
SecondRun ==
    CHOOSE r \in Runs \ {FirstRun} : \A q \in Runs \ {FirstRun} : r[1] <= q[1]

\* C20: with the "$" and "," characters removed, the maximal runs of digits
\* of the amount text are read in order: none (or a missing or empty text)
\* gives null, exactly one number n gives {low: n, high: n}, and two or more
\* give {low: first, high: second}; "$15,001 - $50,000" parses to
\* {low: 15001, high: 50000}, of midpoint 32500.5.
C20_ParseAmountRange ==
    pc = "done" =>
        /\ Runs = {} => amountRange = NULL
        /\ Cardinality(Runs) = 1 =>
               amountRange = Some([low |-> NumberAt(FirstRun),
                                   high |-> NumberAt(FirstRun)])
        /\ Cardinality(Runs) >= 2 =>
               amountRange = Some([low |-> NumberAt(FirstRun),
                                   high |-> NumberAt(SecondRun)])
        /\ amountInput = Some(AmountExamples.Range15001to50000) =>
               /\ amountRange = Some([low |-> 15001, high |-> 50000])
               /\ Val(amountRange).low + Val(amountRange).high = 2 * 32500 + 1

\* The feed's usual form, parsed across its thousands separators.
C20_Witness ==
    /\ pc = "done"
    /\ amountInput = Some(AmountExamples.Range15001to50000)
    /\ amountRange = Some([low |-> 15001, high |-> 50000])

---------------------------------------------------------------------------
(* Properties of buildTraderHistories                                      *)

\* A name lower-cased and trimmed; a missing name is the empty text.
NormalizedName(o) == IF IsNull(o) THEN <<>> ELSE trim(toLowerCase(Val(o)))

\* The identity of the trader of the i-th trade of the batch.
Identity(i) ==
    <<allTrades[i].chamber,
      NormalizedName(allTrades[i].trade.firstName),
      NormalizedName(allTrades[i].trade.lastName)>>

TradesOfTrader(i) == {j \in DOMAIN allTrades : Identity(j) = Identity(i)}

AmountOf(j) == parseAmountRange(allTrades[j].trade.amount)

RECURSIVE SumLowHigh(_)
\* The sum of low + high over the trades at the positions of S.
SumLowHigh(S) ==
    IF S = {} THEN 0
    ELSE LET j == CHOOSE x \in S : TRUE
         IN  Val(AmountOf(j)).low + Val(AmountOf(j)).high + SumLowHigh(S \ {j})

HistoriesBuilt == pc = "done" /\ ~IsNull(histories)

\* The history the analysis hands to the scorer for the i-th trade.
HistoryFor(i) ==
    Val(histories)[getTraderId(allTrades[i].trade, allTrades[i].chamber)]

\* The history h is the one of the trades at the positions of `group`: it
\* counts them all and averages the midpoints of those whose amount parsed.
HistoryMatches(h, group) ==
    LET parsed == {j \in group : ~IsNull(AmountOf(j))}
    IN  /\ h.totalTradeCount = Cardinality(group)
        /\ parsed = {} => IsNull(h.averageTradeSize)
        /\ parsed # {} =>
               /\ ~IsNull(h.averageTradeSize)
               /\ Val(h.averageTradeSize).num * 2 * Cardinality(parsed)
                      = SumLowHigh(parsed) * Val(h.averageTradeSize).den

JoinedIdentity(i) ==
    ChamberText(Identity(i)[1]) \o <<"-">> \o Identity(i)[2]
        \o <<"-">> \o Identity(i)[3]

TradesOfJoinedIdentity(i) ==
    {j \in DOMAIN allTrades : JoinedIdentity(j) = JoinedIdentity(i)}

---------------------------------------------------------------------------
(* Properties of analyzeTrades                                             *)

ScoringStarted == pc = "scoring" \/ scoredTrades # <<>>

\* C21: the aggregation phase strictly precedes the scoring phase: from the
\* first call of scoreTrade on, the pattern index and the trader histories
\* are those of the full batch and the market-data map is resolved (by the
\* provider's batch call when there is a provider); and no step taken while
\* trades remain to be scored performs any I/O.
C21_AggregateThenScore ==
    /\ [](ScoringStarted =>
            /\ patterns = Some(buildPatterns(tradesOf(allTrades), now))
            /\ histories = Some(buildTraderHistories(allTrades))
            /\ ~IsNull(marketDataMap)
            /\ ~IsNull(marketDataProvider) =>
                   "getMarketDataBatch" \in Range(ioLog))
    /\ [][(pc = "scoring" /\ cursor <= Len(allTrades)) => ioLog' = ioLog]_vars

\* A run with a provider that scored three trades and returned: the batch
\* call and the save are its only I/O besides the console.
C21_Witness ==
    /\ pc = "returned"
    /\ ~IsNull(marketDataProvider)
    /\ Len(scoredTrades) = 3
    /\ Len(SelectSeq(ioLog, LAMBDA e : e = "getMarketDataBatch")) = 1
    /\ Len(SelectSeq(ioLog, LAMBDA e : e = "saveReport")) = 1

\* The day of a trade's transaction date, a trade with no date (absent or
\* empty) counting below every day.
DayOf(t) ==
    IF IsNull(t.transactionDate) \/ Val(t.transactionDate).kind # "iso"
    THEN 0 - 1
    ELSE Val(t.transactionDate).day

ReportedTrades == Val(report).value.scoredTrades

\* C22: the scoredTrades of the report are ordered by transaction date
\* descending, trades without a date last; and the sort comes after the
\* scoring: while trades are being scored the list is in batch order, and
\* the report lists every trade of the batch.
C22_SortedByDateDescending ==
    /\ pc = "scoring" =>
           /\ Len(scoredTrades) = cursor - 1
           /\ \A k \in DOMAIN scoredTrades :
                  scoredTrades[k].trade = allTrades[k].trade
    /\ pc = "returned" =>
           /\ Len(ReportedTrades) = Len(allTrades)
           /\ \A i, j \in DOMAIN ReportedTrades :
                  i < j => DayOf(ReportedTrades[i].trade)
                               >= DayOf(ReportedTrades[j].trade)

\* A batch given oldest first, with an undated trade in the middle, comes
\* back newest first with the undated trade last.
C22_Witness ==
    /\ pc = "returned"
    /\ Len(allTrades) = 3
    /\ DayOf(allTrades[1].trade) = 10
    /\ DayOf(allTrades[2].trade) = 0 - 1
    /\ DayOf(allTrades[3].trade) = 50
    /\ DayOf(ReportedTrades[1].trade) = 50
    /\ DayOf(ReportedTrades[2].trade) = 10
    /\ DayOf(ReportedTrades[3].trade) = 0 - 1

TopByScore == Val(report).value.summary.topByScore

Occurrences(list, x) == Cardinality({i \in DOMAIN list : list[i] = x})

\* C28: summary.topByScore holds the (up to 20) analyzed trades of the
\* highest overallScore: no trade left out of it scores strictly higher than
\* a trade in it.
C28_TopByScoreHighest ==
    pc = "returned" =>
        /\ Len(TopByScore) = IF Len(ReportedTrades) <= 20
                             THEN Len(ReportedTrades) ELSE 20
        /\ \A inside \in Range(TopByScore), other \in Range(ReportedTrades) :
               Occurrences(ReportedTrades, other) > Occurrences(TopByScore, other)
                   => other.score.overallScore <= inside.score.overallScore

---------------------------------------------------------------------------
(* Properties of fetchTrades                                               *)

StoredLists == {Val(storedTrades).senateTrades, Val(storedTrades).houseTrades}

\* The seven fields duplicate detection uses, an absent one as the empty text.
KeyFields(t) ==
    <<OrEmpty(t.firstName), OrEmpty(t.lastName),
      IF TruthyDate(t.transactionDate) THEN t.transactionDate ELSE NULL,
      OrEmpty(t.symbol), OrEmpty(t.type), OrEmpty(t.amount), OrEmpty(t.owner)>>

\* C23: after any sequence of fetchTrades runs that starts with nothing stored
\* and fetches incrementally, the stored list of each chamber holds no two
\* trades of the same duplicate-detection key, whatever the API returned.
C23_StoredWithoutDuplicates ==
    ~IsNull(storedTrades) =>
        \A list \in StoredLists :
            \A i, j \in DOMAIN list :
                KeyFields(list[i]) = KeyFields(list[j]) => i = j

RequestsOf(chamber) == SelectSeq(requestLog, LAMBDA r : r[1] = chamber)

\* The page a chamber answered last in the call under way.
LastPage(chamber) ==
    LET script == IF chamber = "senate" THEN fetchCalls[callNo].senate
                  ELSE fetchCalls[callNo].house
    IN  apiPage(script, Len(RequestsOf(chamber)) - 1).value

\* An empty page, a page shorter than limit, or one with a trade dated before
\* the start date.
EndsChamber(trades) ==
    \/ Len(trades) < fetchCalls[callNo].limit
    \/ \E i \in DOMAIN trades :
           /\ ~IsNull(trades[i].transactionDate)
           /\ Val(trades[i].transactionDate).kind = "iso"
           /\ Val(trades[i].transactionDate).day * HoursPerDay < startDate

\* C25: the pagination loop runs at most 50 iterations; each iteration
\* requests a chamber at most once, page after page from 0; a chamber is
\* marked done exactly on an empty page, a short page or a page with a trade
\* older than the start date, and once done is never requested again within
\* the call; once both chambers are done the loop takes no further iteration.
C25_PaginationBounded ==
    /\ [](/\ page <= 50
          /\ \A chamber \in {"senate", "house"} :
                 /\ Len(RequestsOf(chamber)) <= 50
                 /\ \A k \in DOMAIN RequestsOf(chamber) :
                        RequestsOf(chamber)[k][2] = k - 1)
    /\ [](pc = "paging" =>
              /\ Len(RequestsOf("senate")) = page \/ senateDone
              /\ Len(RequestsOf("house")) = page \/ houseDone
              /\ (senateDone /\ Len(RequestsOf("senate")) > 0)
                     => EndsChamber(LastPage("senate"))
              /\ (~senateDone /\ page > 0) => ~EndsChamber(LastPage("senate"))
              /\ (houseDone /\ Len(RequestsOf("house")) > 0)
                     => EndsChamber(LastPage("house"))
              /\ (~houseDone /\ page > 0) => ~EndsChamber(LastPage("house")))
    /\ [][(callNo' = callNo) =>
              /\ senateDone =>
                     Len(SelectSeq(requestLog', LAMBDA r : r[1] = "senate"))
                         = Len(RequestsOf("senate"))
              /\ houseDone =>
                     Len(SelectSeq(requestLog', LAMBDA r : r[1] = "house"))
                         = Len(RequestsOf("house"))
              /\ (senateDone /\ houseDone) => page' = page]_vars

\* A call that stopped at the page limit: both chambers were full on all 50
\* pages and neither is done.
C25_Witness ==
    /\ pc = "fetched"
    /\ page = 50
    /\ ~senateDone /\ ~houseDone
    /\ Len(requestLog) = 100

\* The start date of an incremental fetch over the data stored before it:
\* a day before the most recent stored date, or the target date when the
\* stored data names no date.
StartOver(existing) ==
    LET days == {Val(t.transactionDate).day :
                    t \in {x \in Range(existing.senateTrades)
                                 \cup Range(existing.houseTrades) :
                              /\ ~IsNull(x.transactionDate)
                              /\ Val(x.transactionDate).kind = "iso"}}
    IN  IF days = {} THEN fetchCalls[callNo].targetDate
        ELSE ((CHOOSE m \in days : \A d \in days : d <= m) - 1) * HoursPerDay

\* `after` is `before` followed by trades of `offered` only, each of a key
\* that `before` does not hold and without a date or dated from `start` on.
OnlyAppended(before, after, offered, start) ==
    /\ Len(after) >= Len(before)
    /\ SubSeq(after, 1, Len(before)) = before
    /\ \A k \in (Len(before) + 1)..Len(after) :
           /\ after[k] \in Range(offered)
           /\ \A i \in DOMAIN before : KeyFields(before[i]) # KeyFields(after[k])
           /\ \/ ~TruthyDate(after[k].transactionDate)
              \/ /\ Val(after[k].transactionDate).kind = "iso"
                 /\ Val(after[k].transactionDate).day * HoursPerDay >= start

IncrementalDone ==
    /\ pc = "fetched"
    /\ ~fetchCalls[callNo].refresh
    /\ ~IsNull(existingData)

\* C27: an incremental fetch over stored data only appends: what was stored
\* is a prefix of what is stored afterwards, and the trades added are fetched
\* ones whose key was not stored and whose date is missing or at or after the
\* start date; merging the same fetched trades once more adds nothing.
C27_IncrementalOnlyAppends ==
    IncrementalDone =>
        /\ OnlyAppended(Val(existingData).senateTrades,
                        Val(storedTrades).senateTrades, allSenateTrades,
                        StartOver(Val(existingData)))
        /\ OnlyAppended(Val(existingData).houseTrades,
                        Val(storedTrades).houseTrades, allHouseTrades,
                        StartOver(Val(existingData)))
        /\ mergeTrades(Val(storedTrades).senateTrades,
                       notOlderThan(allSenateTrades, startDate))
               = Val(storedTrades).senateTrades
        /\ mergeTrades(Val(storedTrades).houseTrades,
                       notOlderThan(allHouseTrades, startDate))
               = Val(storedTrades).houseTrades

\* Over a stored trade of day 100 the API answers that trade again and one of
\* the day before: only the second is added, after the stored one.
C27_Witness ==
    /\ IncrementalDone
    /\ Val(existingData).senateTrades = <<FetchExamples.recent>>
    /\ allSenateTrades = <<FetchExamples.recent, FetchExamples.dayBefore>>
    /\ Val(storedTrades).senateTrades
           = <<FetchExamples.recent, FetchExamples.dayBefore>>

---------------------------------------------------------------------------
(* Properties of the market-data provider                                  *)

\* The getMarketDataBatch call in progress or just returned.
InBatch == ~IsNull(providerCall) /\ Val(providerCall).method = "getMarketDataBatch"

\* The symbol had, when the call started, an entry younger than ttlMs.
FreshAtStart(symbol) ==
    /\ symbol \in DOMAIN Val(providerCall).cacheBefore
    /\ Val(providerCall).startedAt
           - Val(providerCall).cacheBefore[symbol].fetchedAt
         < cacheConfig.ttlMs

\* The fetchFromAPI calls of the current provider call made for the symbol.
FetchesOf(symbol) == {i \in DOMAIN fetchLog : fetchLog[i].symbol = symbol}

\* The fetchFromAPI calls that returned market data.
Succeeded == {i \in DOMAIN fetchLog : fetchLog[i].returned \notin {<<>>, <<NULL>>}}

\* C24: in getMarketDataBatch a symbol whose cache entry is younger than ttlMs
\* is answered from the cache and no request is issued for it; a symbol with
\* no entry or an expired one is requested unless it was already marked
\* unavailable; and a successful fetch leaves the symbol's entry with the
\* fetched data and the time of the fetch.
C24_CacheWithExpiration ==
    InBatch =>
        /\ \A symbol \in Range(Val(providerCall).symbols) :
               IF FreshAtStart(symbol)
               THEN /\ FetchesOf(symbol) = {}
                    /\ pc = "returned" =>
                           /\ symbol \in DOMAIN Val(providerAnswer).value
                           /\ Val(providerAnswer).value[symbol]
                                  = Val(providerCall).cacheBefore[symbol].data
               ELSE (pc = "returned"
                     /\ symbol \notin Val(providerCall).unavailableBefore) =>
                        \E i \in FetchesOf(symbol) : fetchLog[i].statuses # <<>>
        /\ \A i \in Succeeded :
               LET symbol == fetchLog[i].symbol
                   latest == CHOOSE j \in Succeeded \cap FetchesOf(symbol) :
                                 \A k \in Succeeded \cap FetchesOf(symbol) : k <= j
               IN  /\ symbol \in DOMAIN cache
                   /\ cache[symbol].fetchedAt = fetchLog[latest].at
                   /\ cache[symbol].data = Val(fetchLog[latest].returned[1])
                   /\ fetchLog[i].at >= Val(providerCall).startedAt

\* A batch returned that answered one symbol from the cache and fetched
\* another, whose entry had expired, anew.
C24_Witness ==
    /\ InBatch
    /\ pc = "returned"
    /\ \E symbol \in Range(Val(providerCall).symbols) : FreshAtStart(symbol)
    /\ \E i \in Succeeded :
           /\ fetchLog[i].symbol \in DOMAIN Val(providerCall).cacheBefore
           /\ ~FreshAtStart(fetchLog[i].symbol)
           /\ cache[fetchLog[i].symbol].fetchedAt
                  > Val(providerCall).cacheBefore[fetchLog[i].symbol].fetchedAt

\* The backoffs fetchFromAPI sleeps before its first, second and third retry.
Backoffs == <<2000, 4000, 8000>>

\* C26: one fetchFromAPI call issues at most 4 requests, a further one only
\* after a 429 and after a backoff of 2, 4 and 8 seconds; it returns null when
\* every answer was 429 and on any other failure, without retrying and
\* without throwing; a 402 marks the symbol unavailable, and a symbol marked
\* unavailable when a call starts is not requested by it.
C26_RetryBounded ==
    /\ \A i \in DOMAIN fetchLog :
           LET e == fetchLog[i]
               n == Len(e.statuses)
           IN  /\ n <= MAX_RETRIES + 1
               /\ \A k \in 1..(n - 1) : e.statuses[k] = "429"
               /\ Len(e.sleeps) <= MAX_RETRIES
               /\ e.sleeps = SubSeq(Backoffs, 1, Len(e.sleeps))
               /\ IF e.returned = <<>>
                  THEN Len(e.sleeps) = n
                  ELSE /\ n >= 1
                       /\ Len(e.sleeps) = n - 1
                       /\ (e.statuses[n] = "429") => (n = MAX_RETRIES + 1)
                       /\ (e.statuses[n] # "200") <=> IsNull(e.returned[1])
                       /\ (e.statuses[n] = "402") => (e.symbol \in unavailableSymbols)
    /\ ~IsNull(providerCall) =>
           /\ \A i \in DOMAIN fetchLog :
                  fetchLog[i].symbol \notin Val(providerCall).unavailableBefore
           /\ Val(providerCall).unavailableBefore \subseteq unavailableSymbols
    /\ pc = "fetching" => fetchLog[Len(fetchLog)].returned = <<>>
    /\ \A i \in 1..(Len(fetchLog) - 1) : fetchLog[i].returned # <<>>
    /\ (~IsNull(providerAnswer)) => ~Val(providerAnswer).threw

\* A call returned in which one fetchFromAPI gave up after four 429 answers,
\* having slept 2, 4 and 8 seconds, and a symbol marked unavailable by an
\* earlier call was asked for and not requested.
C26_Witness ==
    /\ pc = "returned"
    /\ \E i \in DOMAIN fetchLog :
           /\ fetchLog[i].statuses = <<"429", "429", "429", "429">>
           /\ fetchLog[i].sleeps = Backoffs
           /\ fetchLog[i].returned = <<NULL>>
    /\ \E symbol \in Range(Val(providerCall).symbols) :
           /\ symbol \in Val(providerCall).unavailableBefore
           /\ ~FreshAtStart(symbol)

\* C30: the number of entries in the provider's cache never exceeds
\* cacheConfig.maxEntries.
C30_CacheWithinCapacity == Cardinality(DOMAIN cache) <= cacheConfig.maxEntries

===========================================================================
